---- MODULE Spec2Model ----
(***************************************************************************)
(* Model of the attached-account registry (AttachedAccountsTreeItem) of    *)
(* vscode-cosmosdb: the single-flight load of the persisted accounts, the  *)
(* attach / detach operations, the secret store (keytar) and the persisted *)
(* list (globalState).                                                     *)
(*                                                                         *)
(* Every async method is cut at its awaits: one action per piece of code   *)
(* that runs between two suspension points.  A call to keytar or to        *)
(* globalState.update takes effect when it is issued (calls are served in  *)
(* the order they are made); the await on it completes in a later step.    *)
(***************************************************************************)
EXTENDS Integers, Sequences, FiniteSets, TLC

\* ---------------------------------------------------------------- bounds
MaxOps == 3        \* registry operations started in one run
MaxReturning == 2  \* those of them that do not end in an error
MaxLoads == 2      \* loadPersistedAccounts invocations in one run
MaxFaults == 1     \* secret-store calls that raise in one run

\* ------------------------------------------------------------ value sets
Ids == {"a", "b"}
EmulatorId == "e"
AllIds == Ids \cup {EmulatorId}

\* provider kinds (enum API of ../experiences); "Other" stands for a value
\* outside the enum found in a persisted record
SupportedAPIs == {"MongoDB", "DocumentDB", "Graph", "Table"}

\* a connection string, reduced to its format and the account it names
NoSecret == [fmt |-> "null", acct |-> "-"]
MongoCS(i) == [fmt |-> "mongo", acct |-> i]
DocDBCS(i) == [fmt |-> "docdb", acct |-> i]

\* a boolean of the program is "true" or "false"; Undef is JavaScript's
\* undefined
Undef == "undefined"
NoItem == [id |-> "-", api |-> "-", isEmulator |-> Undef, cs |-> NoSecret,
           parent |-> "-", nid |-> 0]

\* ---------------------------------------------------------------- state
VARIABLES
    keytar,            \* _keytar: TRUE when the keytar module was fetched
    globalState,       \* _globalState.get(_serviceName): the JSON text
    secrets,           \* keytar store of _serviceName: id -> connection string
    heap,              \* the arrays of tree items, by reference
    attachedAccounts,  \* _attachedAccounts: 0 (undefined) or a reference
    tasks,             \* every load task created so far
    loadTask,          \* _loadPersistedAccountsTask: index into tasks
    ops,               \* the registry operations of this run
    sideCache,         \* commands/api/apiCache: accounts with a cached entry
    secretReads,       \* number of keytar.getPassword calls issued
    warnings,          \* number of showWarningMessage calls
    faults,            \* number of secret-store calls that raised
    document,          \* MongoDocumentTreeItem.document of the document node
    collection,        \* the calls made on parent.collection, in order
    docOps,            \* the update and delete operations on the document node
    mongoAccount,      \* the MongoAccountTreeItem whose databases are listed
    connections,       \* the Db handles connectToMongoClient has returned
    listings,          \* the loadMoreChildrenImpl calls on the account node
    creations,         \* the createChildImpl calls on the account node
    queries            \* the calls of the functions that keep no state

vars == <<keytar, globalState, secrets, heap, attachedAccounts, tasks,
          loadTask, ops, sideCache, secretReads, warnings, faults>>
docVars == <<document, collection, docOps>>
accountVars == <<mongoAccount, connections, listings, creations>>
queryVars == <<queries>>
nodeVars == <<docVars, accountVars, queryVars>>
allVars == <<vars, docVars, accountVars, queryVars>>

\* ------------------------------------------------- persisted JSON value
\* An element of the persisted array is a bare string (legacy) or an
\* object.  JSON has no undefined: a property whose value is undefined is
\* left out by JSON.stringify ("absent") and reads back as undefined.
JStr(i) == [t |-> "string", id |-> i, defaultExperience |-> "-", isEmulator |-> "-"]
JObj(i, api, emu) == [t |-> "object", id |-> i, defaultExperience |-> api, isEmulator |-> emu]
\* what globalState.get returns: undefined (nothing stored) or JSON text
NoValue == [set |-> FALSE, json |-> <<>>]
StoredValue(elems) == [set |-> TRUE, json |-> elems]

JSONStringifyRecord(r) ==
    JObj(r.id, r.defaultExperience,
         IF r.isEmulator = Undef THEN "absent" ELSE r.isEmulator)

JSONStringify(recs) == [k \in 1..Len(recs) |-> JSONStringifyRecord(recs[k])]

\* what the code reads from a parsed element (lines 471-483)
ParsedIsEmulator(e) ==
    IF e.isEmulator \in {"true", "false"} THEN e.isEmulator ELSE Undef

\* ------------------------------------------- connection string parsers
\* parseMongoConnectionString / parseDocDBConnectionString: the descriptor
\* of a well-formed string, a failure for any other (a missing secret,
\* which keytar returns as null, included)
ParseMongoOk(cs) == cs.fmt = "mongo"
ParseDocDBOk(cs) == cs.fmt = "docdb"

\* ------------------------------------------------------- createTreeItem
\* createTreeItem(connectionString, api, label?, id?, isEmulator?):
\* [ok |-> FALSE] when it throws, else the new node.  idArg = Undef when
\* the caller passes no id.  nid is the identity of the new object.
ThrownItem == [ok |-> FALSE, item |-> NoItem]

\* faulty variant: the switch has no default, a kind it does not know gives
\* a node of that kind
createTreeItemOpenSwitch(cs, api, idArg, isEmulator, nid) ==
    IF api = "MongoDB"
    THEN IF idArg = Undef /\ ~ParseMongoOk(cs)
         THEN ThrownItem
         ELSE [ok |-> TRUE,
               item |-> [id |-> IF idArg = Undef THEN cs.acct ELSE idArg,
                         api |-> "MongoDB", isEmulator |-> isEmulator,
                         cs |-> cs, parent |-> "attached", nid |-> nid]]
    ELSE IF ~ParseDocDBOk(cs)
         THEN ThrownItem
         ELSE [ok |-> TRUE,
               item |-> [id |-> cs.acct, api |-> api,
                         isEmulator |-> isEmulator, cs |-> cs,
                         parent |-> "attached", nid |-> nid]]

createTreeItem(cs, api, idArg, isEmulator, nid) ==
    IF api = "MongoDB"
    THEN IF idArg = Undef /\ ~ParseMongoOk(cs)
         THEN ThrownItem
         ELSE [ok |-> TRUE,
               item |-> [id |-> IF idArg = Undef THEN cs.acct ELSE idArg,
                         api |-> "MongoDB", isEmulator |-> isEmulator,
                         cs |-> cs, parent |-> "attached", nid |-> nid]]
    ELSE IF ~ParseDocDBOk(cs)
         THEN ThrownItem
         ELSE IF api \in {"Table", "Graph", "DocumentDB"}
              THEN [ok |-> TRUE,
                    item |-> [id |-> cs.acct, api |-> api,
                              isEmulator |-> isEmulator, cs |-> cs,
                              parent |-> "attached", nid |-> nid]]
              ELSE ThrownItem

\* AzureTreeItem.fullId: the parent's fullId followed by the node's id
FullId(node) == <<node.parent, node.id>>

\* ----------------------------------------------------------- persistIds
\* the records persistIds builds from the nodes (lines 527-545); every
\* node of the list is one of the four account classes
PersistedRecord(node) ==
    [id |-> node.id, defaultExperience |-> node.api, isEmulator |-> node.isEmulator]

\* faulty variant: the emulator accounts are left out of the list written
persistIdsWithoutEmulators(accounts) ==
    LET kept == SelectSeq(accounts, LAMBDA node : node.isEmulator # "true")
    IN  StoredValue(JSONStringify([k \in 1..Len(kept) |-> PersistedRecord(kept[k])]))

persistIds(accounts) ==
    StoredValue(JSONStringify([k \in 1..Len(accounts) |-> PersistedRecord(accounts[k])]))

\* ------------------------------------------------- loadPersistedAccounts
\* faulty variant: the persisted list is read whether keytar is there or not
NewLoadTaskWithoutKeytarTest(gs, h) ==
    LET elems == IF gs.set THEN gs.json ELSE <<>>
    IN  [status |-> IF elems = <<>> THEN "resolved" ELSE "pending",
         elems  |-> elems,
         read   |-> [k \in 1..Len(elems) |-> secrets[elems[k].id]],
         left   |-> 1..Len(elems),
         out    |-> Len(h) + 1]

\* faulty variant: persistedAccounts is the array of the load before
NewLoadTaskReusesArray(gs, h) ==
    LET elems == IF gs.set /\ keytar THEN gs.json ELSE <<>>
    IN  [status |-> IF elems = <<>> THEN "resolved" ELSE "pending",
         elems  |-> elems,
         read   |-> [k \in 1..Len(elems) |-> secrets[elems[k].id]],
         left   |-> 1..Len(elems),
         out    |-> IF h = <<>> THEN 1 ELSE Len(h)]

\* The part of loadPersistedAccounts that runs inside the call (lines
\* 462-466 and each callback up to its await of getPassword, line 484):
\* the persisted value is read and parsed and one getPassword is issued
\* per element.  `out` is the persistedAccounts array.
NewLoadTask(gs, h) ==
    LET elems == IF gs.set /\ keytar THEN gs.json ELSE <<>>
    IN  [status |-> IF elems = <<>> THEN "resolved" ELSE "pending",
         elems  |-> elems,
         read   |-> [k \in 1..Len(elems) |-> secrets[elems[k].id]],
         left   |-> 1..Len(elems),
         out    |-> Len(h) + 1]

\* the rest of one callback (lines 471-485) for element e and the secret
\* cs that getPassword returned
\* faulty variant: a bare string is built without the isEmulator flag
LoadedItemLegacyUnflagged(e, cs, nid) ==
    IF e.t = "string"
    THEN createTreeItem(cs, "MongoDB", e.id, Undef, nid)
    ELSE createTreeItem(cs, e.defaultExperience, e.id, ParsedIsEmulator(e), nid)

LoadedItem(e, cs, nid) ==
    IF e.t = "string"
    THEN createTreeItem(cs, "MongoDB", e.id, "false", nid)
    ELSE createTreeItem(cs, e.defaultExperience, e.id, ParsedIsEmulator(e), nid)

\* ---------------------------------------------------- getAttachedAccounts
\* faulty variant: the catch stores the empty array and returns it, without throwing
getAttachedAccountsSwallows(c, h, tk) ==
    IF c # 0
    THEN [mode |-> "ret", cache |-> c, heap |-> h, ref |-> c]
    ELSE IF tk.status = "pending"
         THEN [mode |-> "wait", cache |-> c, heap |-> h, ref |-> 0]
         ELSE IF tk.status = "resolved"
              THEN [mode |-> "ret", cache |-> tk.out, heap |-> h, ref |-> tk.out]
              ELSE [mode |-> "ret", cache |-> Len(h) + 1,
                    heap |-> Append(h, <<>>), ref |-> Len(h) + 1]

\* faulty variant: a copy of the cached array is returned
getAttachedAccountsCopies(c, h, tk) ==
    IF c # 0
    THEN [mode |-> "ret", cache |-> c, heap |-> Append(h, h[c]), ref |-> Len(h) + 1]
    ELSE IF tk.status = "pending"
         THEN [mode |-> "wait", cache |-> c, heap |-> h, ref |-> 0]
         ELSE IF tk.status = "resolved"
              THEN [mode |-> "ret", cache |-> tk.out, heap |-> h, ref |-> tk.out]
              ELSE [mode |-> "throw", cache |-> Len(h) + 1,
                    heap |-> Append(h, <<>>), ref |-> 0]

\* getAttachedAccounts called with cache c, heap h, and load task tk
\* (lines 282-293).  mode "ret": it returns list ref at once or, the task
\* being settled already, right after the await; "wait": it is suspended on
\* the pending task; "throw": the task had failed, the catch stored a new
\* empty array and threw.
getAttachedAccounts(c, h, tk) ==
    IF c # 0
    THEN [mode |-> "ret", cache |-> c, heap |-> h, ref |-> c]
    ELSE IF tk.status = "pending"
         THEN [mode |-> "wait", cache |-> c, heap |-> h, ref |-> 0]
         ELSE IF tk.status = "resolved"
              THEN [mode |-> "ret", cache |-> tk.out, heap |-> h, ref |-> tk.out]
              ELSE [mode |-> "throw", cache |-> Len(h) + 1,
                    heap |-> Append(h, <<>>), ref |-> 0]

\* ------------------------------------------------------------ operations
\* api: the provider kind an attach was called with; prompt: the prompt of
\* attachNewAccount or attachEmulator that was dismissed, "-" when none was
IdleOp == [kind |-> "-", pc |-> "idle", node |-> NoItem, cs |-> NoSecret,
           api |-> "-", prompt |-> "-", ref |-> 0, task |-> 0, clear |-> FALSE,
           fault |-> FALSE, res |-> "-", ret |-> 0]

\* where each method goes on once getAttachedAccounts has returned
Continuation(kind) ==
    IF kind = "attach" THEN "attach_cont"
    ELSE IF kind = "detach" THEN "detach_cont" ELSE "refresh_cont"

\* the caller of getAttachedAccounts after the call g, made while t was the
\* load task: it goes on with the list, waits for t, or fails with the
\* error thrown
AfterGet(op, g, t) ==
    IF g.mode = "ret"
    THEN [op EXCEPT !.pc = Continuation(op.kind), !.ref = g.ref, !.task = t]
    ELSE IF g.mode = "wait"
         THEN [op EXCEPT !.pc = "await", !.task = t]
         ELSE [op EXCEPT !.pc = "done", !.res = "error", !.task = t]

Range(f) == {f[k] : k \in DOMAIN f}
\* findIndex: the first of the indexes S that satisfy the test, 0 for -1
FirstIndex(S) == IF S = {} THEN 0 ELSE CHOOSE k \in S : \A j \in S : k <= j
RemoveAt(seq, k) == [j \in 1..(Len(seq) - 1) |-> IF j < k THEN seq[j] ELSE seq[j + 1]]

\* ------------------------------------------------------------------ Init
\* What an earlier session can have left in globalState and in keytar:
\* nothing; a legacy list; a list mixing the legacy and the record form; an
\* emulator account; a record whose secret is gone (detach deletes the
\* secret before it rewrites the list); a record of an unknown provider.
NoSecrets == [i \in AllIds |-> NoSecret]
InitStores ==
    { [gs |-> NoValue, sec |-> NoSecrets],
      [gs |-> StoredValue(<<JStr("a")>>),
       sec |-> [NoSecrets EXCEPT !["a"] = MongoCS("a")]],
      [gs |-> StoredValue(<<JStr("a"), JObj("b", "DocumentDB", "false")>>),
       sec |-> [NoSecrets EXCEPT !["a"] = MongoCS("a"), !["b"] = DocDBCS("b")]],
      [gs |-> StoredValue(<<JObj("e", "DocumentDB", "true"), JObj("a", "MongoDB", "absent")>>),
       sec |-> [NoSecrets EXCEPT !["e"] = DocDBCS("e"), !["a"] = MongoCS("a")]],
      [gs |-> StoredValue(<<JObj("a", "MongoDB", "false"), JObj("b", "Graph", "false")>>),
       sec |-> [NoSecrets EXCEPT !["a"] = MongoCS("a")]],
      [gs |-> StoredValue(<<JObj("a", "Other", "false")>>),
       sec |-> [NoSecrets EXCEPT !["a"] = DocDBCS("a")]] }

\* the constructor (lines 276-280): keytar is fetched or not and the first
\* load is started
Init ==
    /\ keytar \in BOOLEAN
    /\ \E st \in InitStores :
        /\ globalState = st.gs
        /\ secrets = st.sec
        /\ tasks = << NewLoadTask(globalState, <<>>) >>
        /\ secretReads = Len(tasks[1].elems)
    /\ heap = << <<>> >>
    /\ attachedAccounts = 0
    /\ loadTask = 1
    /\ ops = [p \in 1..MaxOps |-> IdleOp]
    /\ sideCache = AllIds
    /\ warnings = 0
    /\ faults = 0

\* a new operation takes the first free slot
CanStart(p) ==
    /\ ops[p].pc = "idle" /\ \A q \in 1..(p - 1) : ops[q].pc # "idle"
    /\ Cardinality({q \in 1..MaxOps : ops[q].pc # "idle" /\ ops[q].res # "error"}) < MaxReturning

\* --------------------------------------------------- loadMoreChildrenImpl
\* faulty variant: the cache is never dropped
ClearsCacheNever(clearCache) == FALSE

\* faulty variant: every call reloads, also a soft refresh
ClearsCacheAlways(clearCache) == TRUE

\* line 307: the cache is dropped and a load started when clearCache is set
ClearsCache(clearCache) == clearCache

\* loadMoreChildrenImpl(clearCache) up to its await (lines 307-312)
LoadMoreChildren(p, clearCache) ==
    /\ CanStart(p)
    /\ ClearsCache(clearCache) => Len(tasks) < MaxLoads
    /\ LET clr == ClearsCache(clearCache)
           c0  == IF clr THEN 0 ELSE attachedAccounts
           h0  == IF clr THEN Append(heap, <<>>) ELSE heap
           tk  == IF clr THEN NewLoadTask(globalState, heap) ELSE tasks[loadTask]
           cur == IF clr THEN Len(tasks) + 1 ELSE loadTask
           g   == getAttachedAccounts(c0, h0, tk)
       IN  /\ tasks' = IF clr THEN Append(tasks, tk) ELSE tasks
           /\ loadTask' = cur
           /\ secretReads' = IF clr THEN secretReads + Len(tk.elems) ELSE secretReads
           /\ attachedAccounts' = g.cache
           /\ heap' = g.heap
           /\ ops' = [ops EXCEPT ![p] =
                 AfterGet([IdleOp EXCEPT !.kind = "refresh", !.clear = clearCache],
                          g, cur)]
    /\ UNCHANGED nodeVars
    /\ UNCHANGED <<keytar, globalState, secrets, sideCache, warnings, faults>>

\* lines 315-317: the item of the placeholder array
GenericTreeItem ==
    [parent       |-> "attached",
     contextValue |-> "cosmosDBAttachDatabaseAccount",
     label        |-> "Attach Database Account...",
     commandId    |-> "cosmosDB.attachDatabaseAccount"]

\* faulty variant: the list is returned also when it is empty
ChildrenUnguarded(attached, h) == attached

\* line 314: the array returned for the list `attached` that
\* getAttachedAccounts returned, 0 for the new array holding GenericTreeItem
Children(attached, h) == IF Len(h[attached]) > 0 THEN attached ELSE 0

\* the rest of loadMoreChildrenImpl (lines 314-318): ret is the list
\* returned, 0 for the array holding the one placeholder item
LoadMoreChildrenReturn(p) ==
    /\ ops[p].pc = "refresh_cont"
    /\ ops' = [ops EXCEPT ![p].pc = "done", ![p].res = "ok",
                          ![p].ret = Children(ops[p].ref, heap)]
    /\ UNCHANGED nodeVars
    /\ UNCHANGED <<keytar, globalState, secrets, heap, attachedAccounts,
                   tasks, loadTask, sideCache, secretReads, warnings, faults>>

\* ------------------------------------------------- the load task's steps
\* getAttachedAccounts resumed in every caller suspended on task t, in the
\* order they called (lines 285-292): on success each stores the task's
\* array and returns it; on failure each stores a new empty array (the one
\* of the last caller remains) and throws
Waiters(t) == {p \in 1..MaxOps : ops[p].pc = "await" /\ ops[p].task = t}

\* faulty variant: on failure the catch keeps what the load had built
ResumeWaitersKeepsPartial(t, tk, h) ==
    IF tk.status = "pending" \/ Waiters(t) = {}
    THEN [cache |-> attachedAccounts, heap |-> h, ops |-> ops]
    ELSE IF tk.status = "resolved"
         THEN [cache |-> tk.out, heap |-> h,
               ops |-> [p \in 1..MaxOps |->
                          IF p \in Waiters(t)
                          THEN [ops[p] EXCEPT !.pc = Continuation(ops[p].kind), !.ref = tk.out]
                          ELSE ops[p]]]
         ELSE [cache |-> tk.out, heap |-> h,
               ops |-> [p \in 1..MaxOps |->
                          IF p \in Waiters(t)
                          THEN [ops[p] EXCEPT !.pc = "done", !.res = "error"]
                          ELSE ops[p]]]

ResumeWaiters(t, tk, h) ==
    IF tk.status = "pending" \/ Waiters(t) = {}
    THEN [cache |-> attachedAccounts, heap |-> h, ops |-> ops]
    ELSE IF tk.status = "resolved"
         THEN [cache |-> tk.out, heap |-> h,
               ops |-> [p \in 1..MaxOps |->
                          IF p \in Waiters(t)
                          THEN [ops[p] EXCEPT !.pc = Continuation(ops[p].kind), !.ref = tk.out]
                          ELSE ops[p]]]
         ELSE [cache |-> Len(h) + 1, heap |-> Append(h, <<>>),
               ops |-> [p \in 1..MaxOps |->
                          IF p \in Waiters(t)
                          THEN [ops[p] EXCEPT !.pc = "done", !.res = "error"]
                          ELSE ops[p]]]

\* One callback of the map of loadPersistedAccounts finishes (lines
\* 484-485): getPassword returns (raises when fail) and the node is built
\* and pushed.  Promise.all rejects with the first callback that throws and
\* resolves when the last one is done; the callbacks still running after a
\* rejection push into an array nobody reads and are left out.
LoadStep(t, i, fail) ==
    /\ t \in 1..Len(tasks)
    /\ tasks[t].status = "pending"
    /\ i \in tasks[t].left
    /\ fail => faults < MaxFaults
    /\ LET tk == tasks[t]
           r  == LoadedItem(tk.elems[i], tk.read[i], 10 * t + i)
           ok == r.ok /\ ~fail
           h1 == IF ok THEN [heap EXCEPT ![tk.out] = Append(@, r.item)] ELSE heap
           tk1 == [tk EXCEPT !.left = @ \ {i},
                             !.status = IF ~ok THEN "rejected"
                                        ELSE IF tk.left = {i} THEN "resolved"
                                        ELSE "pending"]
           w  == ResumeWaiters(t, tk1, h1)
       IN  /\ tasks' = [tasks EXCEPT ![t] = tk1]
           /\ heap' = w.heap
           /\ attachedAccounts' = w.cache
           /\ ops' = w.ops
    /\ faults' = IF fail THEN faults + 1 ELSE faults
    /\ UNCHANGED nodeVars
    /\ UNCHANGED <<keytar, globalState, secrets, loadTask, sideCache,
                   secretReads, warnings>>

\* ---------------------------------------------------------- attachAccount
\* attachConnectionString(connectionString, api) and attachNewAccount once
\* its prompts are answered (lines 373-374, 382-383): createTreeItem, then
\* attachAccount up to its await of getAttachedAccounts (line 427)
BeginAttach(p, r, cs, api) ==
    IF ~r.ok
    THEN /\ ops' = [ops EXCEPT ![p] = [IdleOp EXCEPT !.kind = "attach", !.cs = cs,
                                              !.api = api,
                                              !.pc = "done", !.res = "error"]]
         /\ UNCHANGED <<attachedAccounts, heap>>
    ELSE LET g == getAttachedAccounts(attachedAccounts, heap, tasks[loadTask])
         IN  /\ attachedAccounts' = g.cache
             /\ heap' = g.heap
             /\ ops' = [ops EXCEPT ![p] =
                   AfterGet([IdleOp EXCEPT !.kind = "attach", !.node = r.item, !.cs = cs,
                                           !.api = api],
                            g, loadTask)]

AttachConnectionString(p, cs, api) ==
    /\ CanStart(p)
    /\ BeginAttach(p, createTreeItem(cs, api, Undef, Undef, 100 + p), cs, api)
    /\ UNCHANGED nodeVars
    /\ UNCHANGED <<keytar, globalState, secrets, tasks, loadTask, sideCache,
                   secretReads, warnings, faults>>

\* the connection string attachEmulator makes and the node it creates,
\* flagged isEmulator (lines 409-420)
EmulatorCS(api) == IF api = "MongoDB" THEN MongoCS(EmulatorId) ELSE DocDBCS(EmulatorId)

EmulatorItem(api, nid) ==
    LET r == createTreeItem(EmulatorCS(api), api, Undef, Undef, nid)
    IN  IF r.ok THEN [r EXCEPT !.item.isEmulator = "true"] ELSE r

\* a prompt was dismissed: the attach ends here, with res as its outcome
Dismissed(p, prompt, res) ==
    /\ ops' = [ops EXCEPT ![p] = [IdleOp EXCEPT !.kind = "attach", !.prompt = prompt,
                                              !.pc = "done", !.res = res]]
    /\ UNCHANGED <<attachedAccounts, heap>>

\* attachEmulator (lines 388-424): pick is the item of the quick pick,
\* undefined when it is dismissed, and port tells whether the emulator port
\* is configured; without either the method returns
AttachEmulator(p, pick, port) ==
    /\ CanStart(p)
    /\ IF pick = Undef
       THEN Dismissed(p, "showQuickPick", "ok")
       ELSE IF ~port
            THEN Dismissed(p, "-", "ok")
            ELSE BeginAttach(p, EmulatorItem(pick, 100 + p), EmulatorCS(pick), pick)
    /\ UNCHANGED nodeVars
    /\ UNCHANGED <<keytar, globalState, secrets, tasks, loadTask, sideCache,
                   secretReads, warnings, faults>>

\* what the input box of attachNewAccount can return for the API picked:
\* a string its validateInput accepts (lines 353-362, 549-562)
ValidInput(api, i) == IF api = "MongoDB" THEN MongoCS(i) ELSE DocDBCS(i)

\* the else of lines 376-378
PickDismissed == "UserCancelledError"

\* attachNewAccount (lines 346-379): pick is the item of the quick pick and
\* input the account named in the input box, each undefined when its prompt
\* is dismissed
AttachNewAccount(p, pick, input) ==
    /\ CanStart(p)
    /\ IF pick = Undef
       THEN Dismissed(p, "showQuickPick", PickDismissed)
       ELSE IF input = Undef
            THEN Dismissed(p, "showInputBox", "ok")
            ELSE BeginAttach(p, createTreeItem(ValidInput(pick, input), pick, Undef,
                                               Undef, 100 + p),
                             ValidInput(pick, input), pick)
    /\ UNCHANGED nodeVars
    /\ UNCHANGED <<keytar, globalState, secrets, tasks, loadTask, sideCache,
                   secretReads, warnings, faults>>

\* faulty variant: the nodes are compared, not their ids
IsAttachedSameNode(accounts, treeItem) == \E k \in 1..Len(accounts) : accounts[k] = treeItem

\* line 429
IsAttached(accounts, treeItem) == \E k \in 1..Len(accounts) : accounts[k].id = treeItem.id

\* lines 429-434: the warning, or the push and, with keytar, the call of
\* setPassword (which raises when fail)
AttachAccountContinue(p, fail) ==
    /\ ops[p].pc = "attach_cont"
    /\ LET op == ops[p]
           accounts == heap[op.ref]
       IN  IF IsAttached(accounts, op.node)
           THEN /\ ~fail
                /\ warnings' = warnings + 1
                /\ ops' = [ops EXCEPT ![p].pc = "done", ![p].res = "ok"]
                /\ UNCHANGED <<heap, secrets, faults>>
           ELSE /\ heap' = [heap EXCEPT ![op.ref] = Append(@, op.node)]
                /\ fail => keytar /\ faults < MaxFaults
                /\ secrets' = IF keytar /\ ~fail
                              THEN [secrets EXCEPT ![op.node.id] = op.cs]
                              ELSE secrets
                /\ faults' = IF fail THEN faults + 1 ELSE faults
                /\ ops' = [ops EXCEPT ![p].pc = IF keytar THEN "attach_setpw" ELSE "done",
                                      ![p].res = IF keytar THEN "-" ELSE "ok",
                                      ![p].fault = fail]
                /\ UNCHANGED warnings
    /\ UNCHANGED nodeVars
    /\ UNCHANGED <<keytar, globalState, attachedAccounts, tasks, loadTask,
                   sideCache, secretReads>>

\* setPassword has returned: persistIds is called (line 435) and, its
\* update of globalState made, attachAccount returns; or setPassword has
\* raised and attachAccount ends with its error
AttachSecretStored(p) ==
    /\ ops[p].pc = "attach_setpw"
    /\ IF ops[p].fault
       THEN /\ ops' = [ops EXCEPT ![p].pc = "done", ![p].res = "error"]
            /\ UNCHANGED globalState
       ELSE /\ globalState' = persistIds(heap[ops[p].ref])
            /\ ops' = [ops EXCEPT ![p].pc = "done", ![p].res = "ok"]
    /\ UNCHANGED nodeVars
    /\ UNCHANGED <<keytar, secrets, heap, attachedAccounts, tasks, loadTask,
                   sideCache, secretReads, warnings, faults>>

\* ----------------------------------------------------------------- detach
\* the nodes a caller can pass to detach: the account nodes the registry has
\* handed out, and a node that has an attached account's id under another
\* parent (the same account in a subscription), so another fullId
ForeignNode == [id |-> "a", api |-> "MongoDB", isEmulator |-> Undef,
                cs |-> MongoCS("a"), parent |-> "subscription", nid |-> 1]
KnownNodes == UNION {Range(heap[l]) : l \in 1..Len(heap)} \cup {ForeignNode}

\* detach(node) up to its await of getAttachedAccounts (line 441)
Detach(p, node) ==
    /\ CanStart(p)
    /\ LET g == getAttachedAccounts(attachedAccounts, heap, tasks[loadTask])
       IN  /\ attachedAccounts' = g.cache
           /\ heap' = g.heap
           /\ ops' = [ops EXCEPT ![p] =
                 AfterGet([IdleOp EXCEPT !.kind = "detach", !.node = node, !.cs = node.cs],
                          g, loadTask)]
    /\ UNCHANGED nodeVars
    /\ UNCHANGED <<keytar, globalState, secrets, tasks, loadTask, sideCache,
                   secretReads, warnings, faults>>

\* faulty variant: the account is looked up by id, not by fullId
DetachIndexById(accounts, node) ==
    FirstIndex({k \in 1..Len(accounts) : accounts[k].id = node.id})

\* line 443: 0 stands for findIndex's -1
DetachIndex(accounts, node) ==
    FirstIndex({k \in 1..Len(accounts) : FullId(accounts[k]) = FullId(node)})

\* lines 443-452: nothing when no account matches; else the splice, with
\* keytar the call of deletePassword (which raises when fail), without it
\* the call of the connection string parser
DetachContinue(p, fail) ==
    /\ ops[p].pc = "detach_cont"
    /\ LET op == ops[p]
           index == DetachIndex(heap[op.ref], op.node)
       IN  IF index = 0
           THEN /\ ~fail
                /\ ops' = [ops EXCEPT ![p].pc = "done", ![p].res = "ok"]
                /\ UNCHANGED <<heap, secrets, faults>>
           ELSE /\ heap' = [heap EXCEPT ![op.ref] = RemoveAt(@, index)]
                /\ fail => keytar /\ faults < MaxFaults
                /\ secrets' = IF keytar /\ ~fail
                              THEN [secrets EXCEPT ![op.node.id] = NoSecret]
                              ELSE secrets
                /\ faults' = IF fail THEN faults + 1 ELSE faults
                /\ ops' = [ops EXCEPT ![p].pc = IF keytar THEN "detach_delpw"
                                                ELSE "detach_parse",
                                      ![p].fault = fail]
    /\ UNCHANGED nodeVars
    /\ UNCHANGED <<keytar, globalState, attachedAccounts, tasks, loadTask,
                   sideCache, secretReads, warnings>>

\* deletePassword has returned: persistIds is called (line 448) and, its
\* update of globalState made, the connection string parser (lines 451-455);
\* or deletePassword has raised and detach ends with its error
DetachSecretDeleted(p) ==
    /\ ops[p].pc = "detach_delpw"
    /\ IF ops[p].fault
       THEN /\ ops' = [ops EXCEPT ![p].pc = "done", ![p].res = "error"]
            /\ UNCHANGED globalState
       ELSE /\ globalState' = persistIds(heap[ops[p].ref])
            /\ ops' = [ops EXCEPT ![p].pc = "detach_parse"]
    /\ UNCHANGED nodeVars
    /\ UNCHANGED <<keytar, secrets, heap, attachedAccounts, tasks, loadTask,
                   sideCache, secretReads, warnings, faults>>

\* the parser has returned: removeTreeItemFromCache(parsedCS) (lines 453,
\* 456), or it has thrown and detach ends with its error
DetachEvict(p) ==
    /\ ops[p].pc = "detach_parse"
    /\ LET node == ops[p].node
           parsed == IF node.api = "MongoDB" THEN ParseMongoOk(node.cs)
                     ELSE ParseDocDBOk(node.cs)
       IN  IF parsed
           THEN /\ sideCache' = sideCache \ {node.cs.acct}
                /\ ops' = [ops EXCEPT ![p].pc = "done", ![p].res = "ok"]
           ELSE /\ ops' = [ops EXCEPT ![p].pc = "done", ![p].res = "error"]
                /\ UNCHANGED sideCache
    /\ UNCHANGED nodeVars
    /\ UNCHANGED <<keytar, globalState, secrets, heap, attachedAccounts, tasks,
                   loadTask, secretReads, warnings, faults>>

\* ======================================================================
\* MongoDocumentTreeItem
\* ======================================================================
MaxDocOps == 2     \* update and delete calls started on the document node
MaxCount == 2      \* largest modifiedCount or deletedCount the provider reports

\* A document is a function from its field names to values; _id may be
\* missing from a new document, or be there with a falsy value ("").
DocIds == {"x", "y"}
DocNames == {"p", "q"}
StoredDocuments ==
    { d \in [{"_id", "name"} -> DocIds \cup DocNames] :
          d["_id"] \in DocIds /\ d["name"] \in DocNames }
NewDocuments ==
    { d \in [{"_id", "name"} -> DocIds \cup DocNames \cup {""}] :
          d["_id"] \in DocIds \cup {""} /\ d["name"] \in DocNames }
    \cup [{"name"} -> DocNames]

\* doc[field]: undefined for a field the document does not have
Get(doc, field) == IF field \in DOMAIN doc THEN doc[field] ELSE Undef
\* faulty variant: the _id is not looked at
IdGivenUntested(newDocument) == TRUE
\* !newDocument["_id"] (line 216) is false for a field that is there and truthy
IdGiven(newDocument) == Get(newDocument, "_id") \notin {Undef, ""}
\* faulty variant: the whole document is the payload
omitNothing(doc, key) == doc
\* _.omit(newDocument, '_id') (line 220)
omit(doc, key) == [f \in DOMAIN doc \ {key} |-> doc[f]]
\* the filter of updateOne and of deleteOne (lines 201, 219)
IdFilter(i) == [f \in {"_id"} |-> i]

NoDocument == [f \in {} |-> ""]
\* count: the modifiedCount or deletedCount the provider reported (-1: none);
\* dialog: what the confirmation dialog returned ("-": not asked yet)
IdleDocOp == [kind |-> "-", pc |-> "idle", newDocument |-> NoDocument,
              dialog |-> "-", count |-> -1, res |-> "-", ret |-> NoDocument]
CanStartDoc(p) == docOps[p].pc = "idle" /\ \A q \in 1..(p - 1) : docOps[q].pc # "idle"

DocInit ==
    /\ document \in StoredDocuments
    /\ collection = <<>>
    /\ docOps = [p \in 1..MaxDocOps |-> IdleDocOp]
DocIdle ==
    /\ document = [f \in {"_id", "name"} |-> IF f = "_id" THEN "x" ELSE "p"]
    /\ collection = <<>>
    /\ docOps = [p \in 1..MaxDocOps |-> IdleDocOp]

\* update(newDocument) up to the await of updateOne (lines 211, 216-220): a
\* new document without _id is refused before the provider is called
Update(p, newDocument) ==
    /\ CanStartDoc(p)
    /\ IF ~IdGiven(newDocument)
       THEN /\ docOps' = [docOps EXCEPT ![p] =
                  [IdleDocOp EXCEPT !.kind = "update", !.newDocument = newDocument,
                                    !.pc = "done", !.res = "Error"]]
            /\ UNCHANGED collection
       ELSE /\ collection' = Append(collection,
                  [op |-> "updateOne", filter |-> IdFilter(Get(newDocument, "_id")),
                   payload |-> omit(newDocument, "_id")])
            /\ docOps' = [docOps EXCEPT ![p] =
                  [IdleDocOp EXCEPT !.kind = "update", !.newDocument = newDocument,
                                    !.pc = "update_wait"]]
    /\ UNCHANGED <<document, vars, accountVars, queryVars>>

\* faulty variant: any update that modified something is taken as done
UpdateAcceptedAtLeastOne(modifiedCount) == modifiedCount >= 1
\* the test of line 221
UpdateAccepted(modifiedCount) == modifiedCount = 1

\* updateOne has returned modifiedCount, or has raised (failed): lines
\* 221-224, then the assignment and the return of lines 211-212
UpdateResult(p, modifiedCount, failed) ==
    /\ docOps[p].pc = "update_wait"
    /\ IF ~failed /\ UpdateAccepted(modifiedCount)
       THEN /\ document' = docOps[p].newDocument
            /\ docOps' = [docOps EXCEPT ![p].pc = "done", ![p].res = "ok",
                                        ![p].count = modifiedCount,
                                        ![p].ret = docOps[p].newDocument]
       ELSE /\ docOps' = [docOps EXCEPT ![p].pc = "done", ![p].res = "Error",
                                        ![p].count = IF failed THEN -1 ELSE modifiedCount]
            /\ UNCHANGED document
    /\ UNCHANGED <<collection, vars, accountVars, queryVars>>

\* deleteTreeItemImpl up to the await of the modal dialog (lines 198-199)
Delete(p) ==
    /\ CanStartDoc(p)
    /\ docOps' = [docOps EXCEPT ![p] = [IdleDocOp EXCEPT !.kind = "delete",
                                                         !.pc = "confirm"]]
    /\ UNCHANGED <<document, collection, vars, accountVars, queryVars>>

\* what showWarningMessage resolves to: one of the two items, or undefined
\* when the dialog is dismissed
DialogResults == {"Delete", "Cancel", Undef}
\* faulty variant: only the Cancel item stops the delete
ConfirmedUnlessCancelled(dialogResult) == dialogResult # "Cancel"
\* the test of line 200
Confirmed(dialogResult) == dialogResult = "Delete"

\* the dialog has returned (lines 200-207): deleteOne is called with the
\* _id the node's document has now, or UserCancelledError is thrown
DeleteDialog(p, dialogResult) ==
    /\ docOps[p].pc = "confirm"
    /\ IF Confirmed(dialogResult)
       THEN /\ collection' = Append(collection,
                  [op |-> "deleteOne", filter |-> IdFilter(Get(document, "_id")),
                   payload |-> NoDocument])
            /\ docOps' = [docOps EXCEPT ![p].pc = "delete_wait",
                                        ![p].dialog = dialogResult]
       ELSE /\ docOps' = [docOps EXCEPT ![p].pc = "done",
                                        ![p].dialog = dialogResult,
                                        ![p].res = "UserCancelledError"]
            /\ UNCHANGED collection
    /\ UNCHANGED <<document, vars, accountVars, queryVars>>

\* faulty variant: any delete that removed something is taken as done
DeleteAcceptedAtLeastOne(deletedCount) == deletedCount >= 1
\* the test of line 202
DeleteAccepted(deletedCount) == deletedCount = 1

\* deleteOne has returned deletedCount, or has raised (lines 202-204)
DeleteResult(p, deletedCount, failed) ==
    /\ docOps[p].pc = "delete_wait"
    /\ docOps' = [docOps EXCEPT ![p].pc = "done",
                                ![p].count = IF failed THEN -1 ELSE deletedCount,
                                ![p].res = IF ~failed /\ DeleteAccepted(deletedCount)
                                           THEN "ok" ELSE "Error"]
    /\ UNCHANGED <<document, collection, vars, accountVars, queryVars>>

\* ======================================================================
\* MongoAccountTreeItem
\* ======================================================================
MaxListings == 2   \* loadMoreChildrenImpl calls started on the account node

\* A Mongo connection string of an account node: missing (empty), or a
\* string that embeds a database name or embeds none ("").
NoConnectionString == [present |-> FALSE, database |-> ""]
ConnectionStrings ==
    {NoConnectionString} \cup
    {[present |-> TRUE, database |-> d] : d \in {"", "orders", "admin"}}
getDatabaseNameFromConnectionString(cs) == cs.database

\* An error message is a sequence of parts; guidance + message (line 82) is
\* their concatenation and includes (line 81) looks for a part.
EmulatorGuidance == <<"Unable to reach emulator">>
MissingConnectionString == <<"Missing connection string">>
ConnectionFailures == {<<"connect", "ECONNREFUSED">>, <<"connect", "ETIMEDOUT">>}
ListingFailures == {<<"not authorized">>, <<"read", "ECONNREFUSED">>}
includes(message, part) == \E k \in 1..Len(message) : message[k] = part
NoMessage == <<>>

\* what listDatabases can report, each database with its name and empty flag
DatabaseInfo(n, e) == [name |-> n, empty |-> e]
Listings ==
    { <<>>,
      <<DatabaseInfo("admin", TRUE), DatabaseInfo("sales", FALSE)>>,
      <<DatabaseInfo("admin", FALSE), DatabaseInfo("sales", TRUE)>>,
      <<DatabaseInfo("Admin", TRUE), DatabaseInfo("local", TRUE)>>,
      <<DatabaseInfo("", TRUE), DatabaseInfo("orders", FALSE)>> }
toLowerCase(n) == IF n = "Admin" THEN "admin" ELSE n

\* faulty variant: admin is dropped, empty or not
KeepsDatabaseUnlessAdmin(database) ==
    ~(database.name # "" /\ toLowerCase(database.name) = "admin")
\* the filter of line 77: what is kept
KeepsDatabase(database) ==
    ~(database.name # "" /\ toLowerCase(database.name) = "admin" /\ database.empty)
RECURSIVE FilterDatabases(_)
FilterDatabases(databases) ==
    IF databases = <<>> THEN <<>>
    ELSE IF KeepsDatabase(Head(databases))
         THEN <<Head(databases)>> \o FilterDatabases(Tail(databases))
         ELSE FilterDatabases(Tail(databases))
\* lines 76-78: one MongoDatabaseTreeItem, here its name, per database kept
DatabaseNodes(databases) ==
    LET kept == FilterDatabases(databases)
    IN  [k \in 1..Len(kept) |-> kept[k].name]

\* faulty variant: the database of the connection string is never used
UsesEmbeddedDatabaseNever(databaseInConnectionString, isEmulator) == FALSE
\* the test of line 66
UsesEmbeddedDatabase(databaseInConnectionString, isEmulator) ==
    databaseInConnectionString # "" /\ isEmulator # "true"

\* faulty variant: the guidance comes after the message
RethrownGuidanceLast(message, isEmulator) ==
    IF isEmulator = "true" /\ includes(message, "ECONNREFUSED")
    THEN message \o EmulatorGuidance
    ELSE message
\* the catch of lines 79-85: the message the error is re-thrown with
Rethrown(message, isEmulator) ==
    IF isEmulator = "true" /\ includes(message, "ECONNREFUSED")
    THEN EmulatorGuidance \o message
    ELSE message

\* faulty variant: the handle is left open
FinallyLeavesOpen(conns, db) == conns
\* the finally of lines 86-90 for the handle db (0: undefined)
Finally(conns, db) ==
    IF db # 0 THEN [conns EXCEPT ![db].closes = @ + 1] ELSE conns

\* db: the handle (0: undefined); listed: listDatabases was called;
\* databases: the local of line 58; thrown: the message of the error
\* caught; message: the message of the error the call ends with
IdleListing == [pc |-> "idle", db |-> 0, listed |-> FALSE, databases |-> <<>>,
                res |-> "-", message |-> NoMessage, thrown |-> NoMessage,
                ret |-> <<>>]
CanStartListing(p) ==
    listings[p].pc = "idle" /\ \A q \in 1..(p - 1) : listings[q].pc # "idle"
\* the call leaves through the catch and the finally
Raise(op, message) ==
    [op EXCEPT !.pc = "done", !.res = "error", !.thrown = message,
               !.message = Rethrown(message, mongoAccount.isEmulator)]
\* the call leaves through the return of line 76 and the finally
Return(op, databases) ==
    [op EXCEPT !.pc = "done", !.res = "ok", !.databases = databases,
               !.ret = DatabaseNodes(databases)]

\* ------------------------------------------------------- createChildImpl
MaxCreations == 2    \* createChildImpl calls started on the account node
MaxNameLength == 64  \* the longest database name entered

\* A string as the sequence of its characters; Missing is undefined, where
\* a string was expected.
Text(chars) == [given |-> TRUE, chars |-> chars]
Missing == [given |-> FALSE, chars |-> <<>>]
Repeat(c, n) == [k \in 1..n |-> c]
length(s) == Len(s.chars)
\* !s of a string or undefined
Falsy(s) == ~s.given \/ s.chars = <<>>

\* lines 123-124
min == 1
max == 63
\* the character class of line 128: / \ . space " $
ForbiddenCharacters == {"/", "\\", ".", " ", "\"", "$"}
OutOfBounds == <<"Database name must be between", min, "and", max, "characters.">>
BadCharacters == <<"Database name cannot contain these characters">>

\* faulty variant: a name of max characters is too long
validateDatabaseNameBelowMax(database) ==
    IF Falsy(database) \/ length(database) < min \/ length(database) >= max
    THEN OutOfBounds
    ELSE IF \E k \in 1..length(database) : database.chars[k] \in ForbiddenCharacters
         THEN BadCharacters
         ELSE NoMessage
\* validateDatabaseName (lines 121-132): the message, NoMessage for undefined
validateDatabaseName(database) ==
    IF Falsy(database) \/ length(database) < min \/ length(database) > max
    THEN OutOfBounds
    ELSE IF \E k \in 1..length(database) : database.chars[k] \in ForbiddenCharacters
         THEN BadCharacters
         ELSE NoMessage

\* the names tried: every length around the two limits, and every
\* character of the class, and some outside it, at the start, in the
\* middle and at both limits
NameLengths == {0, 1, 2, max - 1, max} \cup (max + 1)..MaxNameLength
SomeCharacters == ForbiddenCharacters \cup {"b", "_", "-", "#", "A", "0"}
DatabaseNames ==
    {Missing}
    \cup {Text(Repeat("a", n)) : n \in NameLengths}
    \cup {Text(<<c>>) : c \in SomeCharacters}
    \cup {Text(<<"a", c, "a">>) : c \in SomeCharacters}
    \cup {Text(Repeat("a", max - 1) \o <<c>>) : c \in SomeCharacters}
    \cup {Text(Repeat("a", max) \o <<c>>) : c \in SomeCharacters}

\* what is typed into the input box of createChildImpl
TypedNames == {Text(<<"a">>), Text(Repeat("a", max)), Text(<<"a", "$">>), Text(<<>>)}

\* faulty variant: the node is built without the connection string
MongoDatabaseTreeItemUnconnected(databaseName, connectionString) ==
    [databaseName |-> databaseName, connectionString |-> NoConnectionString]
\* new MongoDatabaseTreeItem(this, databaseName, this.connectionString),
\* line 101
MongoDatabaseTreeItem(databaseName, connectionString) ==
    [databaseName |-> databaseName, connectionString |-> connectionString]
NoDatabaseNode == MongoDatabaseTreeItem(Missing, NoConnectionString)

\* creating: the label given to showCreatingTreeItem; ret: the node returned
IdleCreation == [pc |-> "idle", creating |-> Missing, res |-> "-",
                 ret |-> NoDatabaseNode]
NoCreations == [p \in 1..MaxCreations |-> IdleCreation]
CanStartCreation(p) ==
    creations[p].pc = "idle" /\ \A q \in 1..(p - 1) : creations[q].pc # "idle"

\* createChildImpl up to its await: the input box is shown (lines 94-98)
CreateChild(p) ==
    /\ CanStartCreation(p)
    /\ creations' = [creations EXCEPT ![p].pc = "input"]
    /\ UNCHANGED <<mongoAccount, connections, listings, vars, docVars, queryVars>>

\* the input box returns the name typed, which it does for a name that
\* validateInput has no message for; the node is announced, built and
\* returned (lines 99-102)
CreateChildInput(p, databaseName) ==
    /\ creations[p].pc = "input"
    /\ validateDatabaseName(databaseName) = NoMessage
    /\ creations' = [creations EXCEPT
          ![p].pc = "done", ![p].res = "ok",
          ![p].creating = databaseName,
          ![p].ret = MongoDatabaseTreeItem(databaseName, mongoAccount.connectionString)]
    /\ UNCHANGED <<mongoAccount, connections, listings, vars, docVars, queryVars>>

\* the input box is dismissed: ext.ui.showInputBox throws UserCancelledError
CreateChildDismissed(p) ==
    /\ creations[p].pc = "input"
    /\ creations' = [creations EXCEPT ![p].pc = "done", ![p].res = "UserCancelledError"]
    /\ UNCHANGED <<mongoAccount, connections, listings, vars, docVars, queryVars>>

AccountInit ==
    /\ creations = NoCreations
    /\ mongoAccount \in [connectionString : ConnectionStrings,
                         isEmulator : {"true", "false", Undef}]
    /\ connections = <<>>
    /\ listings = [p \in 1..MaxListings |-> IdleListing]
AccountIdle ==
    /\ creations = NoCreations
    /\ mongoAccount = [connectionString |-> NoConnectionString, isEmulator |-> Undef]
    /\ connections = <<>>
    /\ listings = [p \in 1..MaxListings |-> IdleListing]

\* loadMoreChildrenImpl up to the await of connectToMongoClient (lines
\* 56-64); without a connection string it throws at once
ListDatabases(p) ==
    /\ CanStartListing(p)
    /\ listings' = [listings EXCEPT ![p] =
          IF ~mongoAccount.connectionString.present
          THEN Raise(IdleListing, MissingConnectionString)
          ELSE [IdleListing EXCEPT !.pc = "connect"]]
    /\ UNCHANGED <<mongoAccount, connections, vars, docVars,
                   creations, queryVars>>

\* connectToMongoClient has raised (line 64): catch, finally with no handle
ConnectFails(p, message) ==
    /\ listings[p].pc = "connect"
    /\ listings' = [listings EXCEPT ![p] = Raise(@, message)]
    /\ UNCHANGED <<mongoAccount, connections, vars, docVars,
                   creations, queryVars>>

\* connectToMongoClient has returned a handle (lines 64-75): the database of
\* the connection string is the whole answer, or listDatabases is called
Connected(p) ==
    /\ listings[p].pc = "connect"
    /\ LET db == Len(connections) + 1
           opened == Append(connections, [closes |-> 0])
           name == getDatabaseNameFromConnectionString(mongoAccount.connectionString)
       IN  IF UsesEmbeddedDatabase(name, mongoAccount.isEmulator)
           THEN /\ listings' = [listings EXCEPT ![p] =
                      Return([@ EXCEPT !.db = db], <<DatabaseInfo(name, FALSE)>>)]
                /\ connections' = Finally(opened, db)
           ELSE /\ listings' = [listings EXCEPT ![p].pc = "list", ![p].db = db,
                                                ![p].listed = TRUE]
                /\ connections' = opened
    /\ UNCHANGED <<mongoAccount, vars, docVars,
                   creations, queryVars>>

\* listDatabases has returned (lines 73-78), then the finally
Listed(p, databases) ==
    /\ listings[p].pc = "list"
    /\ listings' = [listings EXCEPT ![p] = Return(@, databases)]
    /\ connections' = Finally(connections, listings[p].db)
    /\ UNCHANGED <<mongoAccount, vars, docVars,
                   creations, queryVars>>

\* listDatabases has raised (line 73): catch, then the finally
ListFails(p, message) ==
    /\ listings[p].pc = "list"
    /\ listings' = [listings EXCEPT ![p] = Raise(@, message)]
    /\ connections' = Finally(connections, listings[p].db)
    /\ UNCHANGED <<mongoAccount, vars, docVars,
                   creations, queryVars>>

\* ======================================================================
\* Functions of the registry that keep no state
\* ======================================================================
MaxQueries == 2    \* calls of these functions in one run

\* the static contextValue of the account kinds and of the subscription
\* kind; that of MongoAccountTreeItem is line 22
GraphAccountContextValue == "cosmosDBGraphAccount"
MongoAccountContextValue == "cosmosDBMongoServer"
DocDBAccountContextValue == "cosmosDBDocumentServer"
TableAccountContextValue == "cosmosDBTableAccount"
SubscriptionContextValue == "azureextensionui.azureSubscription"
\* the context values asked about: the five above, those of the attached
\* account nodes (createTreeItem appends AttachedAccountSuffix, line 522),
\* those of other nodes, and the empty one
ContextValues ==
    { GraphAccountContextValue, MongoAccountContextValue, DocDBAccountContextValue,
      TableAccountContextValue, SubscriptionContextValue,
      "cosmosDBGraphAccountAttached", "cosmosDBMongoServerAttached",
      "cosmosDBDocumentServerAttached", "cosmosDBTableAccountAttached",
      "MongoDocument", "cosmosDBAttachedAccountsWithEmulator",
      "cosmosDBAttachedAccountsWithoutEmulator", "cosmosDBAttachDatabaseAccount", "" }

\* faulty variant: the case of the Table account is missing
isAncestorOfImplWithoutTable(contextValue) ==
    CASE contextValue = GraphAccountContextValue -> FALSE
      [] contextValue = MongoAccountContextValue -> FALSE
      [] contextValue = DocDBAccountContextValue -> FALSE
      [] contextValue = SubscriptionContextValue -> FALSE
      [] OTHER -> TRUE
\* AttachedAccountsTreeItem.isAncestorOfImpl (lines 321-334)
isAncestorOfImpl(contextValue) ==
    CASE contextValue = GraphAccountContextValue -> FALSE
      [] contextValue = MongoAccountContextValue -> FALSE
      [] contextValue = DocDBAccountContextValue -> FALSE
      [] contextValue = TableAccountContextValue -> FALSE
      [] contextValue = SubscriptionContextValue -> FALSE
      [] OTHER -> TRUE

\* line 259
MONGO_CONNECTION_EXPECTED ==
    <<"Connection string must start with \"mongodb://\" or \"mongodb+srv://\"">>
StartsWith(chars, prefix) ==
    Len(chars) >= Len(prefix) /\ SubSeq(chars, 1, Len(prefix)) = prefix
Drop(chars, n) == SubSeq(chars, n + 1, Len(chars))
\* the pieces of the pattern of line 550: ^mongodb (\+srv)? :\/\/
Mongodb == <<"m", "o", "n", "g", "o", "d", "b">>
PlusSrv == <<"+", "s", "r", "v">>
ColonSlashSlash == <<":", "/", "/">>
\* faulty variant: the group is not optional
matchOnlySrv(chars) ==
    /\ StartsWith(chars, Mongodb)
    /\ StartsWith(Drop(chars, Len(Mongodb)), PlusSrv)
    /\ StartsWith(Drop(chars, Len(Mongodb) + Len(PlusSrv)), ColonSlashSlash)
\* value.match of that pattern: at the start of the string, mongodb, then
\* +srv or nothing, then ://
match(chars) ==
    /\ StartsWith(chars, Mongodb)
    /\ LET rest == Drop(chars, Len(Mongodb))
       IN  \/ /\ StartsWith(rest, PlusSrv)
              /\ StartsWith(Drop(rest, Len(PlusSrv)), ColonSlashSlash)
           \/ StartsWith(rest, ColonSlashSlash)
\* validateMongoConnectionString (lines 549-554): NoMessage for undefined
validateMongoConnectionString(value) ==
    IF ~Falsy(value) /\ match(value.chars) THEN NoMessage ELSE MONGO_CONNECTION_EXPECTED

\* the connection strings tried
Host == <<"h", ":", "1">>
TypedConnectionStrings ==
    { Missing, Text(<<>>),
      Text(Mongodb \o ColonSlashSlash), Text(Mongodb \o ColonSlashSlash \o Host),
      Text(Mongodb \o PlusSrv \o ColonSlashSlash),
      Text(Mongodb \o PlusSrv \o ColonSlashSlash \o Host),
      Text(Mongodb), Text(Mongodb \o <<":", "/">>), Text(Mongodb \o <<":", "/">> \o Host),
      Text(Mongodb \o PlusSrv), Text(Mongodb \o PlusSrv \o <<"/", "/">>),
      Text(Mongodb \o <<"+">> \o ColonSlashSlash),
      Text(Mongodb \o PlusSrv \o PlusSrv \o ColonSlashSlash),
      Text(<<" ">> \o Mongodb \o ColonSlashSlash \o Host),
      Text(<<"x">> \o Mongodb \o ColonSlashSlash),
      Text(<<"M">> \o Tail(Mongodb) \o ColonSlashSlash \o Host),
      Text(<<"h", "t", "t", "p">> \o ColonSlashSlash \o Host),
      Text(Host), Text(ColonSlashSlash) }

\* one call: the function, its argument and what it returned
Query(fn, contextValue, value, result, message) ==
    [fn |-> fn, contextValue |-> contextValue, value |-> value,
     result |-> result, message |-> message]
MoreQueries == Len(queries) < MaxQueries
QueryIdle == queries = <<>>

IsAncestorOf(contextValue) ==
    /\ MoreQueries
    /\ queries' = Append(queries, Query("isAncestorOfImpl", contextValue, Missing,
                                        isAncestorOfImpl(contextValue), NoMessage))
    /\ UNCHANGED <<vars, docVars, accountVars>>

ValidateMongoConnectionString(value) ==
    /\ MoreQueries
    /\ queries' = Append(queries, Query("validateMongoConnectionString", "", value,
                                        FALSE, validateMongoConnectionString(value)))
    /\ UNCHANGED <<vars, docVars, accountVars>>

ValidateDatabaseName(database) ==
    /\ MoreQueries
    /\ queries' = Append(queries, Query("validateDatabaseName", "", database,
                                        FALSE, validateDatabaseName(database)))
    /\ UNCHANGED <<vars, docVars, accountVars>>

\* ------------------------------------------------------------------ Next
AttachInputs ==
    { [cs |-> MongoCS("a"), api |-> "MongoDB"],
      [cs |-> MongoCS("b"), api |-> "MongoDB"],
      [cs |-> DocDBCS("b"), api |-> "DocumentDB"],
      [cs |-> MongoCS("b"), api |-> "Table"],
      [cs |-> DocDBCS("b"), api |-> "Other"] }

Next ==
    \/ \E p \in 1..MaxOps, clearCache \in BOOLEAN : LoadMoreChildren(p, clearCache)
    \/ \E p \in 1..MaxOps : LoadMoreChildrenReturn(p)
    \/ \E t \in 1..MaxLoads, i \in 1..2, fail \in BOOLEAN : LoadStep(t, i, fail)
    \/ \E p \in 1..MaxOps, in \in AttachInputs : AttachConnectionString(p, in.cs, in.api)
    \/ \E p \in 1..MaxOps, pick \in {"MongoDB", "DocumentDB", Undef}, port \in BOOLEAN :
          AttachEmulator(p, pick, port)
    \/ \E p \in 1..MaxOps, pick \in {"MongoDB", "Graph", Undef}, input \in {"b", Undef} :
          AttachNewAccount(p, pick, input)
    \/ \E p \in 1..MaxOps, fail \in BOOLEAN : AttachAccountContinue(p, fail)
    \/ \E p \in 1..MaxOps : AttachSecretStored(p)
    \/ \E p \in 1..MaxOps, node \in KnownNodes : Detach(p, node)
    \/ \E p \in 1..MaxOps, fail \in BOOLEAN : DetachContinue(p, fail)
    \/ \E p \in 1..MaxOps : DetachSecretDeleted(p)
    \/ \E p \in 1..MaxOps : DetachEvict(p)

\* the registry is what runs; the document and the account node stay idle
RegistryInit == Init /\ DocIdle /\ AccountIdle /\ QueryIdle
Spec == RegistryInit /\ [][Next]_allVars

\* the registry as the constructor leaves it where no vault was found and
\* nothing is persisted
RegistryIdle ==
    /\ keytar = FALSE
    /\ globalState = NoValue
    /\ secrets = NoSecrets
    /\ heap = << <<>> >>
    /\ attachedAccounts = 0
    /\ tasks = << NewLoadTask(globalState, <<>>) >>
    /\ loadTask = 1
    /\ ops = [p \in 1..MaxOps |-> IdleOp]
    /\ sideCache = AllIds
    /\ secretReads = 0
    /\ warnings = 0
    /\ faults = 0

\* the operations on one document node
DocNext ==
    \/ \E p \in 1..MaxDocOps, newDocument \in NewDocuments : Update(p, newDocument)
    \/ \E p \in 1..MaxDocOps, modifiedCount \in 0..MaxCount, failed \in BOOLEAN :
          UpdateResult(p, modifiedCount, failed)
    \/ \E p \in 1..MaxDocOps : Delete(p)
    \/ \E p \in 1..MaxDocOps, dialogResult \in DialogResults : DeleteDialog(p, dialogResult)
    \/ \E p \in 1..MaxDocOps, deletedCount \in 0..MaxCount, failed \in BOOLEAN :
          DeleteResult(p, deletedCount, failed)

DocSpecInit == RegistryIdle /\ DocInit /\ AccountIdle /\ QueryIdle
DocSpec == DocSpecInit /\ [][DocNext]_allVars

\* the database listings of one Mongo account node
AccountNext ==
    \/ \E p \in 1..MaxListings : ListDatabases(p)
    \/ \E p \in 1..MaxListings, message \in ConnectionFailures : ConnectFails(p, message)
    \/ \E p \in 1..MaxListings : Connected(p)
    \/ \E p \in 1..MaxListings, databases \in Listings : Listed(p, databases)
    \/ \E p \in 1..MaxListings, message \in ListingFailures : ListFails(p, message)
    \/ \E p \in 1..MaxCreations : CreateChild(p)
    \/ \E p \in 1..MaxCreations, databaseName \in TypedNames : CreateChildInput(p, databaseName)
    \/ \E p \in 1..MaxCreations : CreateChildDismissed(p)

AccountSpecInit == RegistryIdle /\ DocIdle /\ AccountInit /\ QueryIdle
AccountSpec == AccountSpecInit /\ [][AccountNext]_allVars

\* the calls of the functions that keep no state
QueryNext ==
    \/ \E contextValue \in ContextValues : IsAncestorOf(contextValue)
    \/ \E value \in TypedConnectionStrings : ValidateMongoConnectionString(value)
    \/ \E database \in DatabaseNames : ValidateDatabaseName(database)

QuerySpecInit == RegistryIdle /\ DocIdle /\ AccountIdle /\ QueryIdle
QuerySpec == QuerySpecInit /\ [][QueryNext]_allVars

\* ======================================================================
\* Properties
\* ======================================================================
Procs == 1..MaxOps
\* p has called getAttachedAccounts and the call has ended
Returned(p) == ops[p].task # 0 /\ ops[p].pc # "await"
GotList(p) == Returned(p) /\ ops[p].ref # 0
GotError(p) == Returned(p) /\ ops[p].ref = 0
ForcedRefreshes == {p \in Procs : ops[p].kind = "refresh" /\ ops[p].clear}

RECURSIVE SumReads(_)
SumReads(n) == IF n = 0 THEN 0 ELSE Len(tasks[n].elems) + SumReads(n - 1)

\* C1: single-flight load.  The number of loadPersistedAccounts invocations
\* is one (the constructor's) plus the number of loadMoreChildrenImpl(true)
\* calls; the callers of getAttachedAccounts that find no cache are all
\* suspended on the load task that was current when they called, which is
\* still pending, and the getPassword calls issued are those of the loads,
\* one per persisted element.
C1_SingleFlight ==
    /\ Len(tasks) = 1 + Cardinality(ForcedRefreshes)
    /\ secretReads = SumReads(Len(tasks))
    /\ \A p \in Procs : ops[p].pc = "await" =>
          /\ ops[p].task \in 1..Len(tasks)
          /\ tasks[ops[p].task].status = "pending"
          /\ (ForcedRefreshes = {} => ops[p].task = 1)

\* two callers wait for the constructor's load, which reads two secrets
C1_Witness ==
    /\ ops[1].pc = "await" /\ ops[2].pc = "await"
    /\ ops[1].task = 1 /\ ops[2].task = 1
    /\ Len(tasks) = 1 /\ secretReads = 2

\* ---------------------------------------------------------------- C2
\* the cache a call of getAttachedAccounts by p finds, in the step in which
\* p starts: a forced refresh has dropped it first
StartsCall(p) == ops[p].pc = "idle" /\ ops'[p].pc # "idle" /\ ops'[p].task # 0
CacheFound(p) ==
    IF ops'[p].kind = "refresh" /\ ops'[p].clear THEN 0 ELSE attachedAccounts
Resumes(p) == ops[p].pc = "await" /\ ops'[p].pc # "await"

\* C2 as stated: within one cache generation (the callers whose call was
\* made while the same load task was current) every caller sees the outcome
\* of that task: its list if it succeeded, a failure if it failed, whether
\* the caller came before, during or after the first failure.
C2_SameOutcome ==
    \A p \in Procs : Returned(p) =>
        LET tk == tasks[ops[p].task]
        IN  /\ tk.status = "rejected" => GotError(p)
            /\ tk.status = "resolved" => GotList(p) /\ ops[p].ref = tk.out

\* C2 amended: a caller of getAttachedAccounts that finds no cache gets the
\* outcome of the load task current at its call - the task's list if the
\* task succeeds, a failure if it fails - at once when the task is settled,
\* else when it settles; a caller that finds a cache (after a failure was
\* observed: the empty list stored by the catch) gets that list and no
\* failure.
C2_CallerOutcomeStep ==
    \A p \in Procs :
        /\ StartsCall(p) =>
              LET tk == tasks'[ops'[p].task]
              IN  IF CacheFound(p) # 0
                  THEN ops'[p].ref = CacheFound(p) /\ ops'[p].res # "error"
                  ELSE \/ tk.status = "pending" /\ ops'[p].pc = "await"
                       \/ tk.status = "resolved" /\ ops'[p].ref = tk.out
                                                 /\ ops'[p].res # "error"
                       \/ tk.status = "rejected" /\ ops'[p].ref = 0
                                                 /\ ops'[p].res = "error"
        /\ Resumes(p) =>
              LET tk == tasks'[ops[p].task]
              IN  \/ tk.status = "resolved" /\ ops'[p].ref = tk.out
                                            /\ ops'[p].res # "error"
                  \/ tk.status = "rejected" /\ ops'[p].ref = 0
                                            /\ ops'[p].res = "error"

C2_CallerOutcome == [][C2_CallerOutcomeStep]_vars

\* the load has failed, one caller got the failure and a later caller of
\* the same generation got the empty list
C2_Witness ==
    /\ tasks[1].status = "rejected" /\ Len(tasks) = 1
    /\ GotError(1) /\ GotList(2)
    /\ heap[ops[2].ref] = <<>>

\* ---------------------------------------------------------------- C3
UniqueIds(accounts) ==
    \A j, k \in 1..Len(accounts) : j # k => accounts[j].id # accounts[k].id
HasId(accounts, i) == \E k \in 1..Len(accounts) : accounts[k].id = i

\* attachAccount's step after getAttachedAccounts, for an account whose id
\* is in the list already
DuplicateAttachStep(p) ==
    /\ ops[p].pc = "attach_cont" /\ ops'[p].pc # "attach_cont"
    /\ HasId(heap[ops[p].ref], ops[p].node.id)

\* C3: attachAccount is idempotent by id.  When an account with the same id
\* is in the attached list, the call changes neither the in-memory lists,
\* the secret store nor the persisted list, shows one warning and ends
\* without an error; and the ids of every list of accounts stay pairwise
\* distinct.
C3_Idempotent ==
    /\ [](\A l \in 1..Len(heap) : UniqueIds(heap[l]))
    /\ [][\A p \in Procs : DuplicateAttachStep(p) =>
             /\ heap' = heap /\ secrets' = secrets /\ globalState' = globalState
             /\ attachedAccounts' = attachedAccounts
             /\ warnings' = warnings + 1
             /\ ops'[p].pc = "done" /\ ops'[p].res = "ok"]_vars

\* an attach of an id that is attached has ended with the warning, the
\* list still holding that id once
C3_Witness ==
    \E p \in Procs :
        /\ ops[p].kind = "attach" /\ ops[p].pc = "done" /\ ops[p].res = "ok"
        /\ warnings = 1
        /\ HasId(heap[ops[p].ref], ops[p].node.id)
        /\ \A k \in 1..Len(heap[ops[p].ref]) : heap[ops[p].ref][k] # ops[p].node

\* ---------------------------------------------------------------- C4
\* detach's step after getAttachedAccounts, and its step after
\* deletePassword has returned
DetachStep(p) == ops[p].pc = "detach_cont" /\ ops'[p].pc # "detach_cont"
DetachRewriteStep(p) ==
    ops[p].pc = "detach_delpw" /\ ops'[p].pc # "detach_delpw" /\ ~ops[p].fault
Matching(p) ==
    {k \in 1..Len(heap[ops[p].ref]) :
        FullId(heap[ops[p].ref][k]) = FullId(ops[p].node)}
IdsOf(seq) == [k \in 1..Len(seq) |-> seq[k].id]

\* what detach does to the in-memory lists and the side cache when an entry
\* has node's fullId: exactly one such entry leaves the list detach works
\* on, and no entry with that fullId is left in it
RemovesOneEntry(p) ==
    /\ \E k \in Matching(p) :
          heap' = [heap EXCEPT ![ops[p].ref] = RemoveAt(@, k)]
    /\ \A k \in 1..Len(heap'[ops[p].ref]) :
          FullId(heap'[ops[p].ref][k]) # FullId(ops[p].node)

\* when no entry has node's fullId: nothing changes and detach returns
DetachNoOp(p) ==
    /\ heap' = heap /\ secrets' = secrets /\ globalState' = globalState
    /\ sideCache' = sideCache /\ attachedAccounts' = attachedAccounts
    /\ ops'[p].pc = "done" /\ ops'[p].res = "ok"

\* the rewrite: the persisted list is made of the ids of the in-memory list
\* detach works on, which has lost the entry
RewritesList(p) ==
    /\ globalState'.set
    /\ IdsOf(globalState'.json) = IdsOf(heap[ops[p].ref])

\* C4 as stated: detach(node) removes exactly the one entry whose fullId is
\* node's, deletes its secret (deletePassword not raising) and goes on to
\* rewrite the persisted list without it; when no entry has that fullId it
\* changes nothing.
C4_DetachEffect ==
    [][\A p \in Procs :
          /\ DetachStep(p) =>
                IF Matching(p) = {} THEN DetachNoOp(p)
                ELSE /\ RemovesOneEntry(p)
                     /\ ~ops'[p].fault =>
                           /\ secrets' = [secrets EXCEPT ![ops[p].node.id] = NoSecret]
                           /\ ops'[p].pc = "detach_delpw"
          /\ DetachRewriteStep(p) => RewritesList(p)]_vars

\* C4 amended: with the secret store available detach(node) removes exactly
\* the one entry whose fullId is node's, deletes its secret and rewrites
\* the persisted list without it; without the secret store it removes the
\* entry from the in-memory list only and writes neither store; when no
\* entry has that fullId it changes nothing.
C4_DetachEffectWithStore ==
    [][\A p \in Procs :
          /\ DetachStep(p) =>
                IF Matching(p) = {} THEN DetachNoOp(p)
                ELSE /\ RemovesOneEntry(p)
                     /\ keytar /\ ~ops'[p].fault =>
                           /\ secrets' = [secrets EXCEPT ![ops[p].node.id] = NoSecret]
                           /\ ops'[p].pc = "detach_delpw"
                     /\ ~keytar =>
                           /\ secrets' = secrets /\ globalState' = globalState
                           /\ ops'[p].pc = "detach_parse"
          /\ DetachRewriteStep(p) => keytar /\ RewritesList(p)]_vars

\* a detach has removed an entry, deleted its secret and rewritten the
\* persisted list, which now lacks the id; and a detach of a node with the
\* same id under another parent has returned with nothing changed
C4_Witness ==
    /\ keytar
    /\ \E p \in Procs :
          /\ ops[p].kind = "detach" /\ ops[p].pc = "done" /\ ops[p].res = "ok"
          /\ ops[p].node # ForeignNode
          /\ secrets[ops[p].node.id] = NoSecret
          /\ globalState.set
          /\ ~HasId(globalState.json, ops[p].node.id)
          /\ ops[p].node.id \notin sideCache
    /\ \E q \in Procs :
          /\ ops[q].kind = "detach" /\ ops[q].pc = "done" /\ ops[q].res = "ok"
          /\ ops[q].node = ForeignNode
          /\ ForeignNode.id \in sideCache

\* ---------------------------------------------------------------- C5
\* a fresh load (loadPersistedAccounts in a new session) of the persisted
\* value gs with the secrets sec: it succeeds when every element can be
\* rebuilt, and then holds one node per element
ReloadSucceeds(gs, sec) ==
    \A k \in 1..Len(gs.json) : LoadedItem(gs.json[k], sec[gs.json[k].id], 0).ok
ReloadYields(gs, sec, account) ==
    \E k \in 1..Len(gs.json) :
        LET r == LoadedItem(gs.json[k], sec[gs.json[k].id], 0)
        IN  /\ r.ok
            /\ r.item.id = account.id
            /\ r.item.api = account.api
            /\ r.item.isEmulator = account.isEmulator

\* attachAccount returns, the secret written and the list persisted, the
\* account still in the list (no detach has removed it meanwhile)
AttachCompletes(p) ==
    /\ ops[p].pc = "attach_setpw" /\ ops'[p].pc = "done" /\ ops'[p].res = "ok"
    /\ \E k \in 1..Len(heap[ops[p].ref]) : heap[ops[p].ref][k] = ops[p].node

\* C5: round trip.  With the secret store available, once attachAccount(A)
\* has completed, a fresh load of the persisted state succeeds and yields an
\* account with the id, the provider kind and the isEmulator flag of A.
C5_RoundTrip ==
    [][\A p \in Procs : AttachCompletes(p) =>
          /\ globalState'.set
          /\ ReloadSucceeds(globalState', secrets')
          /\ ReloadYields(globalState', secrets', ops[p].node)]_vars

\* ---------------------------------------------------------------- C6
ForcedRefreshStarts(p) == StartsCall(p) /\ ops'[p].kind = "refresh" /\ ops'[p].clear
LoadResolves(t) == tasks[t].status = "pending" /\ tasks'[t].status = "resolved"

\* C6: loadMoreChildrenImpl(true) discards the cache and the task
\* reference: it starts a load of its own, which reads the persisted list
\* and the secrets as they are at the call and fills a new array; the
\* cache it leaves is empty or new, never the array cached before.  The
\* list the call gets from getAttachedAccounts, and returns when it is not
\* empty, is the array of that load, which held, when the load resolved,
\* one node per persisted element read.
C6_ForcedRefresh ==
    /\ [](\A p \in ForcedRefreshes :
            /\ ops[p].task \in 2..Len(tasks)
            /\ GotList(p) => ops[p].ref = tasks[ops[p].task].out
            /\ ops[p].pc = "done" /\ ops[p].res = "ok" => ops[p].ret \in {0, ops[p].ref})
    /\ [][/\ \A p \in Procs : ForcedRefreshStarts(p) =>
                LET tk == tasks'[loadTask']
                IN  /\ Len(tasks') = Len(tasks) + 1
                    /\ loadTask' = Len(tasks')
                    /\ ops'[p].task = loadTask'
                    /\ tk.elems = IF globalState.set /\ keytar
                                  THEN globalState.json ELSE <<>>
                    /\ tk.read = [k \in 1..Len(tk.elems) |-> secrets[tk.elems[k].id]]
                    /\ tk.out > Len(heap) /\ heap'[tk.out] = <<>>
                    /\ attachedAccounts' = 0 \/ attachedAccounts' > Len(heap)
          /\ \A t \in 1..Len(tasks) : LoadResolves(t) =>
                LET tk == tasks[t]
                IN  /\ Len(heap'[tk.out]) = Len(tk.elems)
                    /\ \A i \in 1..Len(tk.elems) :
                          \E k \in 1..Len(tk.elems) :
                             heap'[tk.out][k] =
                                LoadedItem(tk.elems[i], tk.read[i], 10 * t + i).item
          /\ \A p \in Procs :
                ops[p].pc = "refresh_cont" /\ ops'[p].pc = "done" =>
                   ops'[p].ret = IF heap[ops[p].ref] # <<>> THEN ops[p].ref ELSE 0
       ]_vars

\* a list was cached (the first operation got it) and a forced refresh has
\* returned another list, the one of its own load, with accounts in it
C6_Witness ==
    /\ GotList(1) /\ ops[1].ref = tasks[1].out
    /\ 2 \in ForcedRefreshes
    /\ ops[2].pc = "done" /\ ops[2].res = "ok"
    /\ ops[2].ret = tasks[2].out /\ ops[2].ret # ops[1].ref
    /\ Len(heap[ops[2].ret]) = 2

\* ---------------------------------------------------------------- C7
\* attachAccount's step after getAttachedAccounts, for an account whose id
\* is not in the list
NewAttachStep(p) ==
    /\ ops[p].pc = "attach_cont" /\ ops'[p].pc # "attach_cont"
    /\ ~HasId(heap[ops[p].ref], ops[p].node.id)

\* C7: without the secret vault no operation fails for its absence (the
\* only failures are those of createTreeItem on a connection string it
\* cannot parse) and none touches the persisted list or the secret store:
\* every load resolves at once with no element read, whatever is persisted,
\* so that the lists hold only accounts attached in this session;
\* attachAccount adds the account to the in-memory list and returns; detach
\* removes it from the in-memory list.
C7_NoVault ==
    /\ [](~keytar =>
            /\ secretReads = 0 /\ faults = 0
            /\ \A t \in 1..Len(tasks) :
                  tasks[t].status = "resolved" /\ tasks[t].elems = <<>>
            /\ \A l \in 1..Len(heap) : \A k \in 1..Len(heap[l]) :
                  \E p \in Procs : ops[p].kind = "attach" /\ heap[l][k] = ops[p].node
            /\ \A p \in Procs : ops[p].res = "error" =>
                  ops[p].kind = "attach" /\ ops[p].node = NoItem)
    /\ [][~keytar =>
            /\ globalState' = globalState /\ secrets' = secrets
            /\ \A p \in Procs :
                  /\ NewAttachStep(p) =>
                        /\ heap' = [heap EXCEPT ![ops[p].ref] = Append(@, ops[p].node)]
                        /\ ops'[p].pc = "done" /\ ops'[p].res = "ok"
                  /\ DetachStep(p) /\ Matching(p) # {} => RemovesOneEntry(p)]_vars

\* without the vault and with a persisted list: the first load gave no
\* account, an account was attached and then detached, and nothing was
\* written
C7_Witness ==
    /\ ~keytar /\ globalState.set /\ Len(globalState.json) = 2
    /\ ops[1].kind = "attach" /\ ops[1].pc = "done" /\ ops[1].res = "ok"
    /\ ops[2].kind = "detach" /\ ops[2].pc = "done" /\ ops[2].res = "ok"
    /\ ops[2].node = ops[1].node
    /\ heap[ops[1].ref] = <<>>

\* ---------------------------------------------------------------- C8
\* getAttachedAccounts throws to p, at its call or when p is resumed
GetsError(p) ==
    /\ ops[p].pc \in {"idle", "await"}
    /\ ops'[p].pc = "done" /\ ops'[p].res = "error" /\ ops'[p].task # 0
RejectedArrays == {tasks[t].out : t \in {u \in 1..Len(tasks) : tasks[u].status = "rejected"}}

\* C8: when the load task fails, getAttachedAccounts stores an empty list
\* as the cache and throws to its caller, every suspended caller included;
\* the array of the failed load, with the siblings it had built, is never
\* the cache nor the list any caller gets; and no load is started but by a
\* forced refresh.
C8_LoadFailure ==
    /\ [](/\ attachedAccounts \notin RejectedArrays
          /\ \A p \in Procs : ops[p].ref \notin RejectedArrays
          /\ \A p \in Procs : ops[p].pc = "await" =>
                tasks[ops[p].task].status = "pending"
          /\ Len(tasks) = 1 + Cardinality(ForcedRefreshes))
    /\ [][\A p \in Procs : GetsError(p) =>
             /\ tasks'[ops'[p].task].status = "rejected"
             /\ attachedAccounts' # 0
             /\ heap'[attachedAccounts'] = <<>>
             /\ Len(tasks') = Len(tasks) \/ ForcedRefreshStarts(p)]_vars

\* the first load built one account and failed on the other: the caller got
\* the error, the cache is an empty list and not the array of the load
C8_Witness ==
    /\ tasks[1].status = "rejected"
    /\ Len(heap[tasks[1].out]) = 1
    /\ GotError(1)
    /\ attachedAccounts # 0 /\ heap[attachedAccounts] = <<>>
    /\ faults = 0

\* ---------------------------------------------------------------- C9
WithId(seq, i) == {k \in 1..Len(seq) : seq[k].id = i}

\* C9: with the secret store available, the list of a load that resolves
\* holds one account per element of the persisted array it read, bare
\* strings and records alike; the accounts with the id of a bare string are
\* as many as the elements with that id (one, when ids are distinct), and
\* the account built for a bare string has provider kind MongoDB and
\* isEmulator false.
C9_LegacyLoad ==
    [][\A t \in 1..Len(tasks) : LoadResolves(t) /\ keytar =>
         LET el  == tasks[t].elems
             out == heap'[tasks[t].out]
         IN  /\ Len(out) = Len(el)
             /\ \A i \in 1..Len(el) :
                  /\ Cardinality(WithId(out, el[i].id)) = Cardinality(WithId(el, el[i].id))
                  /\ el[i].t = "string" =>
                       \A k \in WithId(out, el[i].id) :
                          out[k].api = "MongoDB" /\ out[k].isEmulator = "false"]_vars

\* the first load read a bare string and a record and resolved with two
\* accounts, the one of the bare string a MongoDB account, not an emulator
C9_Witness ==
    /\ keytar /\ tasks[1].status = "resolved"
    /\ \E i, j \in 1..Len(tasks[1].elems) :
          tasks[1].elems[i].t = "string" /\ tasks[1].elems[j].t = "object"
    /\ ops = [p \in Procs |-> IdleOp]
    /\ Len(heap[tasks[1].out]) = 2
    /\ \E k \in 1..2 : LET n == heap[tasks[1].out][k]
                       IN  n.id = "a" /\ n.api = "MongoDB" /\ n.isEmulator = "false"

\* --------------------------------------------------------------- C10
\* attachAccount or detach returns from persistIds (lines 435, 448)
WritesList(p) ==
    /\ ops[p].pc \in {"attach_setpw", "detach_delpw"}
    /\ ops'[p].pc # ops[p].pc
    /\ ~ops[p].fault
FullRecord(e) ==
    /\ e.t = "object"
    /\ e.defaultExperience \in SupportedAPIs
    /\ e.isEmulator \in {"true", "false"}

\* C10: every value attachAccount or detach writes to the persisted store
\* is made of full records {id, defaultExperience, isEmulator} only, one
\* per account of the in-memory list the operation works on, in its order;
\* no bare string is written, whatever was loaded.
C10_FullRecords ==
    [][\A p \in Procs : WritesList(p) =>
         LET list == heap[ops[p].ref]
         IN  /\ globalState'.set
             /\ Len(globalState'.json) = Len(list)
             /\ \A k \in 1..Len(list) :
                  /\ globalState'.json[k].id = list[k].id
                  /\ FullRecord(globalState'.json[k])]_vars

\* ======================================================================
\* Properties of the document node (DocSpec)
\* ======================================================================
DocProcs == 1..MaxDocOps
Calls(kind) == {k \in 1..Len(collection) : collection[k].op = kind}
\* update(newDocument) is called in slot p
UpdateStarts(p) == docOps[p].pc = "idle" /\ docOps'[p].kind = "update"
\* the new document has no _id, or a falsy one
LacksId(doc) == "_id" \notin DOMAIN doc \/ doc["_id"] = ""
UpdatesWithId == {p \in DocProcs : docOps[p].kind = "update" /\ ~LacksId(docOps[p].newDocument)}

\* ---------------------------------------------------------------- C11
\* C11: update with a new document whose _id is missing (or falsy) fails at
\* once: the call ends with an error and returns no document, it makes no
\* provider call and the node's document is unchanged; updateOne has been
\* called once for each update whose new document had an _id, never for
\* another.
C11_UpdateNeedsId ==
    /\ [](/\ Cardinality(Calls("updateOne")) = Cardinality(UpdatesWithId)
          /\ \A k \in Calls("updateOne") : collection[k].filter["_id"] \in DocIds)
    /\ [][\A p \in DocProcs :
            UpdateStarts(p) /\ LacksId(docOps'[p].newDocument) =>
               /\ docOps'[p].pc = "done" /\ docOps'[p].res = "Error"
               /\ docOps'[p].ret = NoDocument
               /\ collection' = collection
               /\ document' = document]_allVars

\* an update with a document that has no _id field has failed, the other
\* slot unused: no provider call was made
C11_Witness ==
    /\ docOps[1].kind = "update" /\ docOps[1].pc = "done" /\ docOps[1].res = "Error"
    /\ "_id" \notin DOMAIN docOps[1].newDocument
    /\ docOps[2].pc = "idle"
    /\ collection = <<>>

\* ---------------------------------------------------------------- C12
\* updateOne has answered the update of slot p
UpdateReturns(p) == docOps[p].pc = "update_wait" /\ docOps'[p].pc = "done"

\* C12: update succeeds only when the provider reports exactly one
\* modified row: with any other count, zero included, and when the provider
\* raises, it fails with an error, returns no document and leaves the
\* node's document as it was; with a count of one it succeeds.
C12_ExactlyOneModified ==
    [][\A p \in DocProcs : UpdateReturns(p) =>
         /\ docOps'[p].res = "ok" <=> docOps'[p].count = 1
         /\ docOps'[p].count # 1 =>
               /\ docOps'[p].res = "Error"
               /\ docOps'[p].ret = NoDocument
               /\ document' = document]_allVars

\* an update of the name was answered with no row modified and with two:
\* both failed and the node's document is not the new one
C12_Witness ==
    /\ \A p \in DocProcs :
          /\ docOps[p].kind = "update" /\ docOps[p].pc = "done" /\ docOps[p].res = "Error"
          /\ docOps[p].newDocument # document
          /\ docOps[p].ret = NoDocument
    /\ docOps[1].count = 0 /\ docOps[2].count = 2

\* ---------------------------------------------------------------- C13
\* update is called in slot p with a document that has an _id
UpdateCalls(p) == UpdateStarts(p) /\ ~LacksId(docOps'[p].newDocument)

\* C13: update makes one provider call, updateOne, whose filter holds the
\* new document's _id and nothing else and whose payload is the new
\* document without its _id field; when the update succeeds the node's
\* document is the new document, which is what the call returns.
C13_FilterAndPayload ==
    [][\A p \in DocProcs :
         /\ UpdateCalls(p) =>
              LET new == docOps'[p].newDocument
              IN  /\ Len(collection') = Len(collection) + 1
                  /\ SubSeq(collection', 1, Len(collection)) = collection
                  /\ LET call == collection'[Len(collection')]
                     IN  /\ call.op = "updateOne"
                         /\ DOMAIN call.filter = {"_id"}
                         /\ call.filter["_id"] = new["_id"]
                         /\ DOMAIN call.payload = DOMAIN new \ {"_id"}
                         /\ \A f \in DOMAIN call.payload : call.payload[f] = new[f]
         /\ UpdateReturns(p) /\ docOps'[p].res = "ok" =>
              /\ document' = docOps[p].newDocument
              /\ docOps'[p].ret = document'
              /\ collection' = collection]_allVars

\* an update that renames the document has succeeded: the one provider
\* call is keyed by the _id and carries the name only
C13_Witness ==
    /\ docOps[1].kind = "update" /\ docOps[1].pc = "done" /\ docOps[1].res = "ok"
    /\ docOps[2].pc = "idle"
    /\ document = docOps[1].newDocument
    /\ Len(collection) = 1
    /\ collection[1].filter = IdFilter(document["_id"])
    /\ DOMAIN collection[1].payload = {"name"}

\* ---------------------------------------------------------------- C14
\* the confirmation dialog of the delete of slot p returns
DialogReturns(p) == docOps[p].pc = "confirm" /\ docOps'[p].pc # "confirm"
ConfirmedDeletes == {p \in DocProcs : docOps[p].kind = "delete" /\ docOps[p].dialog = "Delete"}
\* a step of a delete operation, whichever
DeleteSteps(p) == docOps'[p] # docOps[p] /\ docOps'[p].kind = "delete"

\* C14: deleteOne is called only when the dialog has returned the Delete
\* item, once for each delete so confirmed and keyed by the document's _id;
\* with any other outcome of the dialog, Cancel or a dismissal, the
\* operation ends with UserCancelledError and calls nothing; opening the
\* dialog calls nothing either, and no step of a delete changes the node's
\* document.
C14_DeleteAfterConfirm ==
    /\ [](/\ Cardinality(Calls("deleteOne")) = Cardinality(ConfirmedDeletes)
          /\ \A p \in DocProcs :
                docOps[p].res = "UserCancelledError" <=>
                   docOps[p].kind = "delete" /\ docOps[p].dialog \in {"Cancel", Undef})
    /\ [][\A p \in DocProcs :
            /\ DeleteSteps(p) => document' = document
            /\ DialogReturns(p) =>
                 IF docOps'[p].dialog = "Delete"
                 THEN /\ docOps'[p].pc = "delete_wait"
                      /\ collection' = Append(collection,
                            [op |-> "deleteOne", filter |-> IdFilter(document["_id"]),
                             payload |-> NoDocument])
                 ELSE /\ docOps'[p].pc = "done"
                      /\ docOps'[p].res = "UserCancelledError"
                      /\ collection' = collection
            /\ docOps[p].pc = "idle" /\ docOps'[p].pc = "confirm" =>
                 collection' = collection]_allVars

\* one delete was cancelled and one dismissed: both ended with
\* UserCancelledError and the provider was never called
C14_Witness ==
    /\ docOps[1].kind = "delete" /\ docOps[1].dialog = "Cancel"
    /\ docOps[2].kind = "delete" /\ docOps[2].dialog = Undef
    /\ \A p \in DocProcs : docOps[p].pc = "done" /\ docOps[p].res = "UserCancelledError"
    /\ collection = <<>>

\* ---------------------------------------------------------------- C15
\* deleteOne has answered the delete of slot p
DeleteReturns(p) == docOps[p].pc = "delete_wait" /\ docOps'[p].pc = "done"

\* C15: a confirmed delete succeeds only when the provider reports exactly
\* one deleted row; with any other count, and when the provider raises, it
\* fails with an error that is not the cancellation signal.
C15_ExactlyOneDeleted ==
    [][\A p \in DocProcs : DeleteReturns(p) =>
         /\ docOps[p].dialog = "Delete"
         /\ docOps'[p].res = "ok" <=> docOps'[p].count = 1
         /\ docOps'[p].count # 1 =>
               docOps'[p].res = "Error" /\ docOps'[p].res # "UserCancelledError"]_allVars

\* two confirmed deletes, answered with no row deleted and with two, have
\* failed with an error
C15_Witness ==
    /\ \A p \in DocProcs :
          /\ docOps[p].kind = "delete" /\ docOps[p].dialog = "Delete"
          /\ docOps[p].pc = "done" /\ docOps[p].res = "Error"
    /\ docOps[1].count = 0 /\ docOps[2].count = 2

\* ======================================================================
\* Properties of the account node (AccountSpec)
\* ======================================================================
ListingProcs == 1..MaxListings
EmbeddedDatabase == getDatabaseNameFromConnectionString(mongoAccount.connectionString)
\* connectToMongoClient returns a handle to the call of slot p
Connects(p) == listings[p].pc = "connect" /\ listings'[p].db # 0
\* the answer is the one database D, listDatabases not called
ReturnsOnly(op, D) ==
    op.pc = "done" /\ op.res = "ok" /\ op.ret = <<D>> /\ ~op.listed

\* ---------------------------------------------------------------- C16
\* C16 as stated: whenever the connection string embeds a database name D,
\* the call that has connected returns the one node D without calling
\* listDatabases.
C16_EmbeddedDatabase ==
    [][\A p \in ListingProcs : Connects(p) /\ EmbeddedDatabase # "" =>
          ReturnsOnly(listings'[p], EmbeddedDatabase)]_allVars

\* C16 amended: for a node not flagged as emulator whose connection string
\* embeds a database name D, the call that has connected returns exactly
\* one node, named D, without calling listDatabases, and every list such a
\* node returns is that one; for a node flagged as emulator the name in
\* the connection string is not used: the call goes on to listDatabases.
C16_EmbeddedDatabaseUnlessEmulator ==
    /\ [](\A p \in ListingProcs :
            /\ EmbeddedDatabase # "" /\ mongoAccount.isEmulator # "true"
            /\ listings[p].res = "ok"
            => ReturnsOnly(listings[p], EmbeddedDatabase))
    /\ [][\A p \in ListingProcs : Connects(p) /\ EmbeddedDatabase # "" =>
            IF mongoAccount.isEmulator # "true"
            THEN ReturnsOnly(listings'[p], EmbeddedDatabase)
            ELSE listings'[p].pc = "list" /\ listings'[p].listed]_allVars

\* a node that is not an emulator, with orders in its connection string,
\* has listed its databases twice: orders each time, listDatabases unused
C16_Witness ==
    /\ mongoAccount.connectionString.database = "orders"
    /\ mongoAccount.isEmulator = "false"
    /\ \A p \in ListingProcs : ReturnsOnly(listings[p], "orders")

\* ---------------------------------------------------------------- C17
\* the admin database, in any letter case, reporting itself empty
IsEmptyAdmin(database) == database.name \in {"admin", "Admin"} /\ database.empty
NotEmptyAdmin(database) == ~IsEmptyAdmin(database)
NameOf(databases) == [k \in 1..Len(databases) |-> databases[k].name]
\* the call of slot p returns its nodes
ListingReturns(p) == listings[p].pc # "done" /\ listings'[p].pc = "done" /\ listings'[p].res = "ok"

\* C17: the nodes a listing returns are, in order, one per database listed
\* except the admin databases that report themselves empty: an admin
\* database that is not empty and every other database, empty or not, has
\* its node, and nothing else is dropped.
C17_AdminFilter ==
    [][\A p \in ListingProcs : ListingReturns(p) =>
         /\ listings'[p].listed => listings'[p].databases \in Listings
         /\ listings'[p].ret = NameOf(SelectSeq(listings'[p].databases, NotEmptyAdmin))]_allVars

\* the store listed an empty admin and sales, then a non-empty admin and an
\* empty sales: the first answer is sales alone, the second has both
C17_Witness ==
    /\ listings[1].pc = "done" /\ listings[1].listed
    /\ listings[1].databases = <<DatabaseInfo("admin", TRUE), DatabaseInfo("sales", FALSE)>>
    /\ listings[1].ret = <<"sales">>
    /\ listings[2].pc = "done" /\ listings[2].listed
    /\ listings[2].databases = <<DatabaseInfo("admin", FALSE), DatabaseInfo("sales", TRUE)>>
    /\ listings[2].ret = <<"admin", "sales">>

\* ---------------------------------------------------------------- C18
Handles == 1..Len(connections)
Holders(db) == {p \in ListingProcs : listings[p].db = db}

\* C18: every handle connectToMongoClient returns belongs to one call; it
\* is open while that call awaits listDatabases and has been closed once,
\* and only once, when the call has returned or raised, whichever way it
\* ended; a call that got no handle closes nothing.  So when no call is
\* running every handle ever opened has been closed once.
C18_ScopedConnection ==
    /\ [](/\ \A db \in Handles :
                /\ Cardinality(Holders(db)) = 1
                /\ connections[db].closes \in {0, 1}
          /\ \A p \in ListingProcs :
                /\ listings[p].db \in Handles \cup {0}
                /\ listings[p].pc = "list" =>
                      listings[p].db # 0 /\ connections[listings[p].db].closes = 0
                /\ listings[p].pc = "done" /\ listings[p].db # 0 =>
                      connections[listings[p].db].closes = 1
                /\ listings[p].pc \in {"idle", "connect"} => listings[p].db = 0)
    /\ [][\A p \in ListingProcs :
            listings[p].pc = "connect" /\ listings'[p].pc = "done" /\ listings'[p].db = 0 =>
               connections' = connections]_allVars

\* one call returned its nodes and one ended with the error listDatabases
\* raised: each had opened a handle and each handle was closed once
C18_Witness ==
    /\ Len(connections) = 2
    /\ \A db \in Handles : connections[db].closes = 1
    /\ listings[1].pc = "done" /\ listings[1].res = "ok" /\ listings[1].db # 0
    /\ listings[2].pc = "done" /\ listings[2].res = "error" /\ listings[2].listed

\* ---------------------------------------------------------------- C19
\* the call of slot p ends with an error
ListingRaises(p) == listings[p].pc # "done" /\ listings'[p].pc = "done" /\ listings'[p].res = "error"
\* connectToMongoClient raises in the call of slot p
ConnectionFails(p) == listings[p].pc = "connect" /\ ListingRaises(p)

DismissesPrompt(p) == ops[p].pc = "idle" /\ ops'[p].prompt # "-"

\* C20: whichever prompt of attachNewAccount or attachEmulator is
\* dismissed, the quick pick or the input box, the operation ends with
\* UserCancelledError, which is neither a return nor a failure, and the
\* attached lists, the secret store and the persisted list are unchanged.
C20_DismissIsCancellation ==
    [][\A p \in Procs : DismissesPrompt(p) =>
         /\ ops'[p].pc = "done"
         /\ ops'[p].res = "UserCancelledError"
         /\ ops'[p].res \notin {"ok", "error"}
         /\ heap' = heap /\ attachedAccounts' = attachedAccounts
         /\ secrets' = secrets /\ globalState' = globalState]_allVars

\* ---------------------------------------------------------------- C21
\* an attach is called in slot p, after its prompts if it has any
AttachCalled(p) == ops[p].pc = "idle" /\ ops'[p].kind = "attach" /\ ops'[p].api # "-"
AllNodes == UNION {Range(heap[l]) : l \in 1..Len(heap)}

\* C21: createTreeItem called with a provider kind outside MongoDB,
\* DocumentDB, Graph and Table throws and gives no node: an attach with
\* such a kind ends at once with the error and changes neither the lists,
\* the secret store nor the persisted list, and no load is started; an
\* operation that has ended takes no further step (nothing is retried), and
\* no list ever holds a node of another kind.
C21_ClosedSwitch ==
    /\ [](\A n \in AllNodes : n.api \in SupportedAPIs)
    /\ [][\A p \in Procs :
            /\ AttachCalled(p) /\ ops'[p].api \notin SupportedAPIs =>
                 /\ ops'[p].pc = "done" /\ ops'[p].res = "error"
                 /\ ops'[p].node = NoItem
                 /\ heap' = heap /\ attachedAccounts' = attachedAccounts
                 /\ secrets' = secrets /\ globalState' = globalState
                 /\ tasks' = tasks
            /\ ops[p].pc = "done" => ops'[p] = ops[p]]_allVars

\* an attach of a well-formed connection string with a kind that is not
\* supported has failed, with the vault there: nothing is attached and
\* nothing is stored
C21_Witness ==
    /\ keytar /\ ~globalState.set
    /\ ops[1].kind = "attach" /\ ops[1].api = "Other" /\ ParseDocDBOk(ops[1].cs)
    /\ ops[1].pc = "done" /\ ops[1].res = "error"
    /\ ops[2].pc = "idle"
    /\ AllNodes = {}
    /\ secrets = NoSecrets

\* ---------------------------------------------------------------- C22
\* The persisted list and the secrets as the constructor found them, with
\* the vault there: the first load parsed the one and read the other.
PersistedAtStart == tasks[1].elems
SecretsAtStart ==
    [i \in AllIds |->
        IF \E k \in 1..Len(tasks[1].elems) : tasks[1].elems[k].id = i
        THEN tasks[1].read[CHOOSE k \in 1..Len(tasks[1].elems) : tasks[1].elems[k].id = i]
        ELSE NoSecret]
\* what a persisted element stands for, whichever its encoding
Decoded(e) ==
    [id |-> e.id,
     api |-> IF e.t = "string" THEN "MongoDB" ELSE e.defaultExperience,
     isEmulator |-> IF e.t = "string" THEN "false" ELSE ParsedIsEmulator(e)]
\* the records of a persisted list; the load pushes in the order the secret
\* reads resolve, so the order of a rewritten list is not the stored one
Contents(elems) == {Decoded(elems[k]) : k \in 1..Len(elems)}
\* attachAccount has attached a new account in slot p and returned
HasAttached(p) ==
    /\ ops[p].kind = "attach" /\ ops[p].pc = "done" /\ ops[p].res = "ok"
    /\ ops[p].node # NoItem
\* detach(node) has returned in slot q
HasDetached(q, node) ==
    /\ ops[q].kind = "detach" /\ ops[q].pc = "done" /\ ops[q].res = "ok"
    /\ ops[q].node = node

\* the calls made before slot p were refreshes that raised at the failed load
OnlyFailedLoadsBefore(p) ==
    \A r \in 1..(p - 1) :
        ops[r].kind = "refresh" /\ ops[r].pc = "done" /\ ops[r].res = "error"
NoCallAfter(q) == \A r \in (q + 1)..MaxOps : ops[r].pc = "idle"
\* attachAccount(A) of an account not attached, then detach(A), have both
\* returned, with the vault there and no other call but loads that raised
\* before them
RoundTrip(p) ==
    /\ p + 1 \in Procs
    /\ keytar /\ warnings = 0
    /\ OnlyFailedLoadsBefore(p) /\ NoCallAfter(p + 1)
    /\ HasAttached(p) /\ HasDetached(p + 1, ops[p].node)

\* C22: with the secret store available, once attachAccount(A) of an
\* account that was not attached and then detach(A) have both returned,
\* the secret store and the persisted list hold the records they held
\* before the attach: the key written and the key deleted are the same,
\* the id of A.
C22_AttachDetachInverse ==
    \A p \in Procs :
        RoundTrip(p) =>
           /\ secrets = SecretsAtStart
           /\ Contents(globalState.json) = Contents(PersistedAtStart)

\* ---------------------------------------------------------------- C23
AccountKindContextValues ==
    {GraphAccountContextValue, MongoAccountContextValue,
     DocDBAccountContextValue, TableAccountContextValue}
QueriesOf(fn) == {k \in 1..Len(queries) : queries[k].fn = fn}

\* C23: isAncestorOfImpl of the attached-accounts node returns false for
\* the context value of each of the four account kinds and for that of the
\* subscription kind, and true for every other context value.
C23_IsAncestorOf ==
    \A k \in QueriesOf("isAncestorOfImpl") :
        queries[k].result =
            (queries[k].contextValue \notin
                 AccountKindContextValues \cup {SubscriptionContextValue})

C23_Witness ==
    /\ Len(queries) = 2
    /\ queries[1].fn = "isAncestorOfImpl"
    /\ queries[1].contextValue = TableAccountContextValue /\ ~queries[1].result
    /\ queries[2].fn = "isAncestorOfImpl"
    /\ queries[2].contextValue = "cosmosDBTableAccountAttached" /\ queries[2].result

\* ---------------------------------------------------------------- C25
CreationProcs == 1..MaxCreations
\* a step of createChildImpl in slot p
CreationStep(p) == creations'[p] # creations[p]

\* C25: createChildImpl opens no connection and calls nothing on the
\* backing store, and the node it returns carries the name entered and the
\* connection string of the account.
C25_CreateChildIsLocal ==
    /\ [](\A p \in CreationProcs :
            creations[p].pc = "done" /\ creations[p].res = "ok" =>
               /\ creations[p].ret.databaseName = creations[p].creating
               /\ creations[p].ret.databaseName \in TypedNames
               /\ creations[p].ret.connectionString = mongoAccount.connectionString)
    /\ [][\A p \in CreationProcs :
            CreationStep(p) => connections' = connections /\ listings' = listings]_allVars

C25_Witness ==
    /\ mongoAccount.connectionString.present
    /\ creations[1].pc = "done" /\ creations[1].res = "ok"
    /\ creations[1].ret = MongoDatabaseTreeItem(Text(Repeat("a", max)),
                                                mongoAccount.connectionString)
    /\ connections = <<>>
    /\ \A p \in ListingProcs : listings[p].pc = "idle"

\* ---------------------------------------------------------------- C26
\* C26: validateDatabaseName returns no message exactly for a name of 1 to
\* 63 characters that has none of / \ . space " $ in it; for every other
\* input, the empty and the missing name among them, it returns a message.
C26_ValidateDatabaseName ==
    \A k \in QueriesOf("validateDatabaseName") :
        LET database == queries[k].value
            wellFormed ==
                /\ database.given
                /\ Len(database.chars) >= 1 /\ Len(database.chars) <= 63
                /\ \A j \in 1..Len(database.chars) :
                      database.chars[j] \notin {"/", "\\", ".", " ", "\"", "$"}
        IN  /\ (queries[k].message = NoMessage) = wellFormed
            /\ ~wellFormed => Len(queries[k].message) > 0

C26_Witness ==
    /\ Len(queries) = 2
    /\ queries[1].fn = "validateDatabaseName"
    /\ queries[1].value = Text(Repeat("a", 63)) /\ queries[1].message = NoMessage
    /\ queries[2].fn = "validateDatabaseName"
    /\ queries[2].value = Text(Repeat("a", 64)) /\ queries[2].message # NoMessage

\* ---------------------------------------------------------------- C27
\* C27: validateMongoConnectionString returns no message exactly for a
\* string that starts with mongodb:// or mongodb+srv://; for every other
\* input, the empty string among them, it returns MONGO_CONNECTION_EXPECTED.
C27_ValidateMongoConnectionString ==
    \A k \in QueriesOf("validateMongoConnectionString") :
        LET value == queries[k].value
            accepted ==
                /\ value.given
                /\ \/ StartsWith(value.chars,
                         <<"m", "o", "n", "g", "o", "d", "b", ":", "/", "/">>)
                   \/ StartsWith(value.chars,
                         <<"m", "o", "n", "g", "o", "d", "b", "+", "s", "r", "v", ":", "/", "/">>)
        IN  queries[k].message = IF accepted THEN NoMessage ELSE MONGO_CONNECTION_EXPECTED

C27_Witness ==
    /\ Len(queries) = 2
    /\ queries[1].fn = "validateMongoConnectionString"
    /\ queries[1].value = Text(Mongodb \o PlusSrv \o ColonSlashSlash \o Host)
    /\ queries[1].message = NoMessage
    /\ queries[2].fn = "validateMongoConnectionString"
    /\ queries[2].value = Text(<<>>)
    /\ queries[2].message = MONGO_CONNECTION_EXPECTED

\* ---------------------------------------------------------------- C24
\* loadMoreChildrenImpl(false) is called in slot p while a list is cached
SoftRefreshOnCache(p) ==
    /\ ops[p].pc = "idle" /\ ops'[p].kind = "refresh" /\ ~ops'[p].clear
    /\ attachedAccounts # 0
\* loadMoreChildrenImpl returns in slot p
RefreshReturns(p) == ops[p].pc = "refresh_cont" /\ ops'[p].pc = "done"
\* the nodes the load of task t constructs
NodesOfLoad(t) == {10 * t + i : i \in 1..Len(tasks[t].elems)}
\* node n was constructed after task t was started: by the load of t, or
\* by an attach whose call came when t, or a later task, was the load task
ConstructedSince(t, n) ==
    \/ n.nid \in NodesOfLoad(t)
    \/ \E q \in Procs : n.nid = 100 + q /\ ops[q].kind = "attach" /\ ops[q].task >= t

\* C24: loadMoreChildrenImpl(false) called while a list is cached starts no
\* load and constructs nothing, and returns that list, the same array with
\* the same nodes (the placeholder when it is empty);
\* loadMoreChildrenImpl(true) starts a load of its own and the nodes it
\* returns were all constructed after its call, and none of them is in any
\* other list.
C24_RefreshIdentity ==
    [][\A p \in Procs :
         /\ SoftRefreshOnCache(p) =>
               /\ tasks' = tasks /\ loadTask' = loadTask /\ secretReads' = secretReads
               /\ heap' = heap /\ attachedAccounts' = attachedAccounts
               /\ ops'[p].pc = "refresh_cont" /\ ops'[p].ref = attachedAccounts
         /\ RefreshReturns(p) =>
               /\ heap' = heap
               /\ ops'[p].ret = IF heap[ops[p].ref] # <<>> THEN ops[p].ref ELSE 0
         /\ ForcedRefreshStarts(p) =>
               /\ Len(tasks') = Len(tasks) + 1 /\ ops'[p].task = Len(tasks')
               /\ heap'[tasks'[ops'[p].task].out] = <<>>
         /\ RefreshReturns(p) /\ ops[p].clear /\ ops'[p].ret # 0 =>
               /\ ops'[p].ret = tasks[ops[p].task].out
               /\ \A n \in Range(heap[ops'[p].ret]) :
                     /\ ConstructedSince(ops[p].task, n)
                     /\ \A l \in (1..Len(heap)) \ {ops'[p].ret} :
                           \A m \in Range(heap[l]) : m.nid # n.nid
      ]_allVars

\* the first load had built two nodes; a forced refresh has returned the
\* two nodes of its own load, and a refresh that is not forced, called
\* then, has returned the same list
C24_Witness ==
    /\ tasks[1].status = "resolved" /\ Len(heap[tasks[1].out]) = 2
    /\ ops[1].kind = "refresh" /\ ops[1].clear
    /\ ops[1].pc = "done" /\ ops[1].ret = tasks[2].out
    /\ {n.nid : n \in Range(heap[ops[1].ret])} = {21, 22}
    /\ ops[2].kind = "refresh" /\ ~ops[2].clear
    /\ ops[2].pc = "done" /\ ops[2].ret = ops[1].ret
    /\ ops[2].task = 2
    /\ Len(tasks) = 2

\* ---------------------------------------------------------------- C28
\* every call has returned or raised
Quiescent == \A p \in Procs : ops[p].pc \in {"idle", "done"}
\* attachAccount or detach has changed the list in slot p and returned
HasWritten(p) ==
    /\ ops[p].kind \in {"attach", "detach"}
    /\ ops[p].pc = "done" /\ ops[p].res = "ok"
IdSet(seq) == {seq[k].id : k \in 1..Len(seq)}

\* C28: with the secret store there, no call of it raising, no forced
\* refresh and the first load resolved, once the calls of attachAccount and
\* detach have all returned, however they were interleaved, the persisted
\* list holds the ids of the accounts of the in-memory list, each once, and
\* no other.
C28_PersistedIsMemory ==
    /\ keytar /\ faults = 0
    /\ Len(tasks) = 1 /\ tasks[1].status = "resolved"
    /\ attachedAccounts # 0
    /\ Quiescent
    => /\ IdSet(globalState.json) = IdSet(heap[attachedAccounts])
       /\ Len(globalState.json) = Len(heap[attachedAccounts])

\* an attach of b and a detach of a have both returned, in whatever order
\* their steps were taken
C28_Witness ==
    /\ keytar /\ faults = 0 /\ Len(tasks) = 1 /\ tasks[1].status = "resolved"
    /\ Quiescent
    /\ ops[1].kind = "attach" /\ HasWritten(1) /\ ops[1].node.id = "b"
    /\ ops[2].kind = "detach" /\ HasWritten(2) /\ ops[2].node.id = "a"
    /\ ops[3].pc = "idle"
    /\ IdsOf(heap[attachedAccounts]) = <<"e", "b">>
    /\ IdsOf(globalState.json) = <<"e", "b">>
    /\ secrets["a"] = NoSecret /\ secrets["b"] = MongoCS("b")

\* ---------------------------------------------------------------- C29
\* the cache holds the array built by the load of task t
CacheIsOf(t) == attachedAccounts # 0 /\ attachedAccounts = tasks[t].out

\* C29: while the cache holds the list of a load that a forced refresh
\* started, no step puts in its place the list of a load started earlier:
\* a caller of getAttachedAccounts that was suspended on the earlier task
\* leaves the cache as it is when it resumes.
C29_NoStaleOverwrite ==
    [][\A t \in 2..Len(tasks) :
          CacheIsOf(t) => \A j \in 1..(t - 1) : attachedAccounts' # tasks[j].out]_allVars

\* ---------------------------------------------------------------- C30
\* the ids the list written in slot p should hold, given the list before
IdsAfter(p, before) ==
    IF ops[p].kind = "attach"
    THEN IdSet(before) \cup {ops[p].node.id}
    ELSE IdSet(before) \ {ops[p].node.id}

\* C30: the list attachAccount or detach writes holds the ids of the list
\* persisted before, with the id of the account attached added or that of
\* the account detached removed, and nothing else changed: no other record
\* is dropped, whether or not a load had failed.
C30_WritesChangeOneAccount ==
    [][\A p \in Procs :
          WritesList(p) => IdSet(globalState'.json) = IdsAfter(p, globalState.json)]_allVars

\* ---------------------------------------------------------------- C31
\* attachAccount ends in slot p with the error setPassword raised
AttachRaises(p) ==
    /\ ops[p].kind = "attach" /\ ops[p].pc = "attach_setpw" /\ ops[p].fault
    /\ ops'[p].pc = "done"

\* C31: when setPassword raises, attachAccount ends with the error, the
\* account is not in the in-memory list and the persisted list is as it
\* was, so that the two lists agree on whether the account is attached.
C31_AttachAllOrNothing ==
    [][\A p \in Procs :
          AttachRaises(p) =>
             /\ ops'[p].res = "error"
             /\ globalState' = globalState
             /\ ~HasId(heap'[ops[p].ref], ops[p].node.id)
             /\ HasId(heap'[ops[p].ref], ops[p].node.id)
                   = HasId(globalState'.json, ops[p].node.id)]_allVars

\* ---------------------------------------------------------------- C32
\* the nodes attachAccount built in a slot after p
AttachedAfter(p) == {n \in AllNodes : \E q \in Procs : q > p /\ n.nid = 100 + q}

\* a forced refresh of slot p has got its list
ForcedRefreshGot(p) == p \in ForcedRefreshes /\ GotList(p)

ItemsReturned(p) ==
    IF ops[p].ret = 0 THEN <<GenericTreeItem>> ELSE heap[ops[p].ret]

\* the context values of account nodes, attached or not
AccountContextValues ==
    AccountKindContextValues \cup
    {"cosmosDBGraphAccountAttached", "cosmosDBMongoServerAttached",
     "cosmosDBDocumentServerAttached", "cosmosDBTableAccountAttached"}

\* C33: when loadMoreChildrenImpl returns, its result has at least one
\* item: it is the list getAttachedAccounts gave it when that list has an
\* account, and otherwise an array of the one placeholder item, which has
\* no account context value and is in no list, the call leaving every list
\* as it was.
C33_ChildrenNonEmpty ==
    /\ [](\A p \in Procs :
             (ops[p].kind = "refresh" /\ ops[p].pc = "done" /\ ops[p].res = "ok") =>
                (ops[p].ret # 0 => ops[p].ret \in 1..Len(heap)))
    /\ [][\A p \in Procs :
             RefreshReturns(p) =>
                /\ ops'[p].res = "ok"
                /\ Len(ItemsReturned(p)') > 0
                /\ heap' = heap /\ attachedAccounts' = attachedAccounts
                /\ IF heap[ops[p].ref] # <<>>
                   THEN /\ ops'[p].ret = ops[p].ref
                        /\ ItemsReturned(p)' = heap[ops[p].ref]
                   ELSE /\ ItemsReturned(p)' = <<GenericTreeItem>>
                        /\ GenericTreeItem.contextValue \notin AccountContextValues
                        /\ GenericTreeItem \notin AllNodes']_allVars

\* one refresh has returned the list with an account in it and another
\* the placeholder array
C33_Witness ==
    \E p, q \in Procs :
       /\ ops[p].kind = "refresh" /\ ops[p].pc = "done" /\ ops[p].res = "ok"
       /\ ops[p].ret # 0 /\ Len(heap[ops[p].ret]) > 0
       /\ ops[q].kind = "refresh" /\ ops[q].pc = "done" /\ ops[q].res = "ok"
       /\ ops[q].ret = 0 /\ heap[ops[q].ref] = <<>>

====
